---- MODULE Spec2Model ----
(***************************************************************************)
(* A model of the patch-mining and matching core of Hafix-Replication:    *)
(* the code normalizer and equivalence checker of src/evaluate/eval.py,   *)
(* the single-line-bug filter and the diff parser of                      *)
(* src/prompts/baseline.py, and the result aggregator of eval.py.         *)
(* Text is modelled character by character: a Python str is a sequence of *)
(* one-character strings, a patch is the list patch_content.split('\n').  *)
(***************************************************************************)
EXTENDS Integers, Sequences, FiniteSets, TLC

VARIABLES
    epc,             \* evaluator: "idle" | "input" | "checked" | "renormalized"
    generated,       \* evaluator: the generated sample (a str)
    expected,        \* evaluator: the expected fix (a str)
    gen_normalized,  \* is_code_correct: normalize_code(generated)
    exp_normalized,  \* is_code_correct: normalize_code(expected)
    verdict,         \* is_code_correct's return value, "none" before the call
    renormalized,    \* normalize_code applied to gen_normalized
    ppc,             \* patch miner: "idle" | "input" | "filtered" | "parsed"
    lines,           \* patch miner: patch_content.split('\n'), a list of str
    changed_files,   \* is_single_line_bug: its list changed_files
    single_line,     \* is_single_line_bug's return value
    bugs_info,       \* parse_patch's return value, a list of FileChange
    apc,             \* aggregator: "idle" | "input" | "aggregated"
    all_results,     \* aggregator: the list all_results
    aggregated,      \* aggregate_results's return value
    mpc,             \* eval.py's main: "idle" | "evaluating" | "done" | "exit"
    output_files,    \* main: the output files found, each with the bug data of its bug
    file_idx,        \* main: the number of output files evaluated
    zpc,             \* analyze_bug: "idle" | "input" | "analyzed"
    bug_info_file,   \* analyze_bug: the bug.info file of the bug
    patch_exists,    \* analyze_bug: whether the bug has a bug_patch.txt; lines is its text
    bug_data,        \* analyze_bug's return value
    spc,             \* extract_file_info: "idle" | "called" | "scanning" | "done"
    scan_i,          \* extract_file_info: its index i into lines, counted from 1
    scan_st,         \* extract_file_info: the locals of its scan
    scan_result,     \* extract_file_info's return value
    opc,             \* run_ollama: "idle" | "called" | "returned"
    retry_count,     \* run_ollama: its parameter retry_count in the call that is running
    invocations,     \* run_ollama: how each subprocess.run made so far ended, in order
    completion,      \* run_ollama's return value
    gpc,             \* generate_parallel: "idle" | "collecting" | "returned"
    n_samples,       \* generate_parallel: its parameter n_samples
    futures,         \* generate_parallel: the future of each sample, in order of submission
    gen_results      \* generate_parallel: its list results, None where nothing is stored

evalVars == <<epc, generated, expected, gen_normalized, exp_normalized, verdict, renormalized>>

patchVars == <<ppc, lines, changed_files, single_line, bugs_info>>

aggVars == <<apc, all_results, aggregated>>

mainVars == <<mpc, output_files, file_idx>>

analyzeVars == <<zpc, bug_info_file, patch_exists, bug_data>>

scanVars == <<spc, scan_i, scan_st, scan_result>>

ollamaVars == <<opc, retry_count, invocations, completion>>

generateVars == <<gpc, n_samples, futures, gen_results>>

vars ==
    <<evalVars, patchVars, aggVars, mainVars, analyzeVars, scanVars, ollamaVars,
      generateVars>>

\* the variables of the other components, for each component
notEvalVars ==
    <<scanVars, patchVars, aggVars, mainVars, analyzeVars, ollamaVars, generateVars>>

notPatchVars ==
    <<scanVars, evalVars, aggVars, mainVars, analyzeVars, ollamaVars, generateVars>>

notAggVars ==
    <<scanVars, evalVars, patchVars, mainVars, analyzeVars, ollamaVars, generateVars>>

notMainVars ==
    <<evalVars, patchVars, apc, analyzeVars, scanVars, ollamaVars, generateVars>>

notAnalyzeVars ==
    <<evalVars, ppc, changed_files, single_line, bugs_info, aggVars, mainVars, scanVars,
      ollamaVars, generateVars>>

notScanVars ==
    <<evalVars, ppc, changed_files, single_line, bugs_info, aggVars, mainVars, analyzeVars,
      ollamaVars, generateVars>>

notOllamaVars ==
    <<evalVars, patchVars, aggVars, mainVars, analyzeVars, scanVars, generateVars>>

notGenerateVars ==
    <<evalVars, patchVars, aggVars, mainVars, analyzeVars, scanVars, ollamaVars>>

----------------------------------------------------------------------------
(* Bounds of the model *)

\* the most pieces of text a generated sample and an expected fix share
MaxPieces == 3

\* the most lines of a patch
MaxLines == 4

\* the most entries of all_results
MaxResults == 2

----------------------------------------------------------------------------
(* Python str primitives, on sequences of characters *)

\* the characters str.strip(), str.split() and the regex class \s take as blank
IsSpace(c) == c \in {" ", "\n", "\t"}

RECURSIVE lstrip(_)
lstrip(s) == IF s # <<>> /\ IsSpace(Head(s)) THEN lstrip(Tail(s)) ELSE s

RECURSIVE rstrip(_)
rstrip(s) == IF s # <<>> /\ IsSpace(s[Len(s)]) THEN rstrip(SubSeq(s, 1, Len(s) - 1)) ELSE s

\* str.strip()
strip(s) == rstrip(lstrip(s))

\* s[i:].startswith(p), i counted from 1
HasPrefixAt(s, i, p) == i + Len(p) - 1 <= Len(s) /\ SubSeq(s, i, i + Len(p) - 1) = p

\* s.startswith(p)
startswith(s, p) == HasPrefixAt(s, 1, p)

\* s.endswith(p)
endswith(s, p) == Len(p) <= Len(s) /\ SubSeq(s, Len(s) - Len(p) + 1, Len(s)) = p

\* p in s
contains(s, p) == \E i \in 1..(Len(s) - Len(p) + 1) : HasPrefixAt(s, i, p)

\* s.replace(a, b) for single characters a and b
replace(s, a, b) == [i \in 1..Len(s) |-> IF s[i] = a THEN b ELSE s[i]]

\* s.split(c)[0]: the text before the first c
RECURSIVE split_first(_, _)
split_first(s, c) ==
    IF s = <<>> \/ Head(s) = c THEN <<>> ELSE <<Head(s)>> \o split_first(Tail(s), c)

\* ' '.join(s.split()): every run of blanks becomes one space, the ends are trimmed
RECURSIVE join_split(_)
join_split(s) ==
    IF s = <<>> THEN <<>>
    ELSE IF IsSpace(Head(s))
         THEN LET rest == lstrip(s)
              IN  IF rest = <<>> THEN <<>> ELSE <<" ">> \o join_split(rest)
         ELSE <<Head(s)>> \o join_split(Tail(s))

\* the index of the first character at or after i that is not blank
RECURSIVE skip_spaces(_, _)
skip_spaces(s, i) == IF i <= Len(s) /\ IsSpace(s[i]) THEN skip_spaces(s, i + 1) ELSE i

\* re.sub('^' + pat + '\s*', '', s, flags=re.MULTILINE) from position i on: a
\* match starts only at the start of a line of s and takes the blanks after pat
RECURSIVE sub_at_line_start(_, _, _)
sub_at_line_start(pat, s, i) ==
    IF i > Len(s) THEN <<>>
    ELSE IF (i = 1 \/ s[i - 1] = "\n") /\ HasPrefixAt(s, i, pat)
         THEN sub_at_line_start(pat, s, skip_spaces(s, i + Len(pat)))
         ELSE <<s[i]>> \o sub_at_line_start(pat, s, i + 1)

\* the empty dict
EmptyDict == [k \in {} |-> k]

\* d.get(key, default)
get(d, key, default) == IF key \in DOMAIN d THEN d[key] ELSE default

\* the backquote character, which a TLA+ string cannot hold
Backquote == "backquote"

Fence == <<Backquote, Backquote, Backquote>>
FencePython == Fence \o <<"p", "y", "t", "h", "o", "n">>

----------------------------------------------------------------------------
(* src/evaluate/eval.py: normalize_code and is_code_correct *)

\* a normalizer that keeps the trailing comment
normalize_code_keep_comment(code) ==
    LET c1 == sub_at_line_start(FencePython, code, 1)
        c2 == sub_at_line_start(Fence, c1, 1)
    IN  join_split(strip(c2))

normalize_code(code) ==
    LET c1 == sub_at_line_start(FencePython, code, 1)
        c2 == sub_at_line_start(Fence, c1, 1)
        c3 == strip(c2)
        c4 == IF contains(c3, <<"#">>) THEN strip(split_first(c3, "#")) ELSE c3
    IN  join_split(c4)

\* a checker whose containment test runs in both directions
is_code_correct_symmetric(gen, exp) ==
    LET g == normalize_code(gen)
        e == normalize_code(exp)
    IN  \/ g = e
        \/ contains(g, e)
        \/ contains(e, g)
        \/ replace(g, "\"", "'") = replace(e, "\"", "'")

\* a checker without the quote-folding rule
is_code_correct_no_fold(gen, exp) ==
    LET g == normalize_code(gen)
        e == normalize_code(exp)
    IN  g = e \/ contains(g, e)

is_code_correct(gen, exp) ==
    LET g == normalize_code(gen)
        e == normalize_code(exp)
    IN  IF g = e THEN TRUE
        ELSE IF contains(g, e) THEN TRUE
        ELSE IF replace(g, "\"", "'") = replace(e, "\"", "'") THEN TRUE
        ELSE FALSE

----------------------------------------------------------------------------
(* Characters and regular expressions of src/prompts/baseline.py *)

\* Python's None, where the other value is a dict
None == [none |-> TRUE]

\* Python's None, where the other value is a str
NoneStr == <<"None">>

DigitChars == <<"0", "1", "2", "3", "4", "5", "6", "7", "8", "9">>

LowerCase ==
    <<"a", "b", "c", "d", "e", "f", "g", "h", "i", "j", "k", "l", "m",
      "n", "o", "p", "q", "r", "s", "t", "u", "v", "w", "x", "y", "z">>

UpperCase ==
    <<"A", "B", "C", "D", "E", "F", "G", "H", "I", "J", "K", "L", "M",
      "N", "O", "P", "Q", "R", "S", "T", "U", "V", "W", "X", "Y", "Z">>

Range(f) == { f[i] : i \in DOMAIN f }

\* the literals of the patch grammar
DiffGit == <<"d", "i", "f", "f", " ", "-", "-", "g", "i", "t">>
DotPy == <<".", "p", "y">>
TestWord == <<"t", "e", "s", "t">>
DefSpace == <<"d", "e", "f", " ">>
AtAt == <<"@", "@">>

\* the regex class \d
IsDigit(c) == c \in Range(DigitChars)

\* the regex class \w
IsWordChar(c) == c \in Range(DigitChars) \cup Range(LowerCase) \cup Range(UpperCase) \cup {"_"}

lower_char(c) ==
    IF c \in Range(UpperCase)
    THEN LowerCase[CHOOSE i \in DOMAIN UpperCase : UpperCase[i] = c]
    ELSE c

\* str.lower()
lower(s) == [i \in 1..Len(s) |-> lower_char(s[i])]

\* int(s) for a run of digits s
RECURSIVE int(_)
int(s) ==
    IF s = <<>> THEN 0
    ELSE 10 * int(SubSeq(s, 1, Len(s) - 1))
         + ((CHOOSE i \in DOMAIN DigitChars : DigitChars[i] = s[Len(s)]) - 1)

Min(S) == CHOOSE m \in S : \A x \in S : m <= x
Max(S) == CHOOSE m \in S : \A x \in S : m >= x

\* '\n'.join(ls)
RECURSIVE join_lines(_)
join_lines(ls) ==
    IF ls = <<>> THEN <<>>
    ELSE IF Len(ls) = 1 THEN ls[1]
    ELSE Head(ls) \o <<"\n">> \o join_lines(Tail(ls))

\* os.path.basename(path): the text after the last slash
basename(path) ==
    LET I == { i \in 1..Len(path) : path[i] = "/" }
    IN  IF I = {} THEN path ELSE SubSeq(path, Max(I) + 1, Len(path))

RECURSIVE skip_digits(_, _)
skip_digits(s, i) == IF i <= Len(s) /\ IsDigit(s[i]) THEN skip_digits(s, i + 1) ELSE i

RECURSIVE skip_word(_, _)
skip_word(s, i) == IF i <= Len(s) /\ IsWordChar(s[i]) THEN skip_word(s, i + 1) ELSE i

\* re.search(r'b/(.+)$', line): the leftmost "b/" that has text after it; the group
\* is the rest of the line
re_search_path(line) ==
    LET I == { i \in 1..(Len(line) - 2) : line[i] = "b" /\ line[i + 1] = "/" }
    IN  IF I = {} THEN [matched |-> FALSE, group |-> <<>>]
        ELSE [matched |-> TRUE, group |-> SubSeq(line, Min(I) + 2, Len(line))]

\* \s+ matched at position i: the position after the blanks, 0 when there is none
after_blanks(s, i) == IF skip_spaces(s, i) > i THEN skip_spaces(s, i) ELSE 0

\* ,?\d*\s+ matched at position i: the position after it, 0 when it does not match
after_count(s, i) ==
    after_blanks(s, skip_digits(s, IF i <= Len(s) /\ s[i] = "," THEN i + 1 ELSE i))

\* sign(\d+),?\d*\s+ matched at position i: the position after it, 0 when it does
\* not match; the group (\d+) is the longest run of digits after the sign
after_range(s, i, sign) ==
    IF i >= 1 /\ i <= Len(s) /\ s[i] = sign /\ skip_digits(s, i + 1) > i + 1
    THEN after_count(s, skip_digits(s, i + 1))
    ELSE 0

\* @@(.*)$ matched at position i: the position where the group (.*) starts, or 0
after_closing(s, i) == IF i >= 1 /\ HasPrefixAt(s, i, AtAt) THEN i + 2 ELSE 0

\* @@\s+-(\d+),?\d*\s+\+(\d+),?\d*\s+@@(.*)$ matched at position p: the position
\* where the group (.*) starts, 0 when the pattern does not match at p
hunk_match_at(s, p) ==
    IF HasPrefixAt(s, p, AtAt) /\ skip_spaces(s, p + 2) > p + 2
    THEN after_closing(s, after_range(s, after_range(s, skip_spaces(s, p + 2), "-"), "+"))
    ELSE 0

\* the groups of the hunk-header pattern matched at position p
hunk_groups(s, p) ==
    [matched   |-> TRUE,
     old_start |-> int(SubSeq(s, skip_spaces(s, p + 2) + 1,
                              skip_digits(s, skip_spaces(s, p + 2) + 1) - 1)),
     context   |-> SubSeq(s, hunk_match_at(s, p), Len(s))]

\* re.search(r'@@\s+-(\d+),?\d*\s+\+(\d+),?\d*\s+@@(.*)$', line): the leftmost match
re_search_hunk(line) ==
    IF \E p \in 1..Len(line) : hunk_match_at(line, p) > 0
    THEN hunk_groups(line, Min({ p \in 1..Len(line) : hunk_match_at(line, p) > 0 }))
    ELSE [matched |-> FALSE, old_start |-> 0, context |-> <<>>]

\* def\s+(\w+)\s*\( matched at position p
def_match_at(s, p) ==
    LET a == skip_spaces(s, p + 3)
        w == skip_word(s, a)
        b == skip_spaces(s, w)
    IN  [ok   |-> /\ HasPrefixAt(s, p, <<"d", "e", "f">>)
                  /\ a > p + 3
                  /\ w > a
                  /\ b <= Len(s)
                  /\ s[b] = "(",
         name |-> SubSeq(s, a, w - 1)]

\* re.search(r'def\s+(\w+)\s*\(', context): the leftmost match
re_search_def(context) ==
    LET P == { p \in 1..Len(context) : def_match_at(context, p).ok }
    IN  IF P = {} THEN [matched |-> FALSE, name |-> <<>>]
        ELSE [matched |-> TRUE, name |-> def_match_at(context, Min(P)).name]


----------------------------------------------------------------------------
(* src/prompts/baseline.py: the single-line-bug filter *)

\* a code-line test that takes a comment line for code
is_code_line_any_text(line) == strip(line) # <<>>

is_code_line(line) ==
    LET stripped == strip(line)
    IN  IF stripped = <<>> THEN FALSE
        ELSE IF startswith(stripped, <<"#">>) THEN FALSE
        ELSE TRUE

\* the first loop of is_single_line_bug: the list changed_files
RECURSIVE collect_changed_files(_)
collect_changed_files(ls) ==
    IF ls = <<>> THEN <<>>
    ELSE LET line == Head(ls)
             m == re_search_path(line)
             keep == /\ startswith(line, DiffGit)
                     /\ m.matched
                     /\ endswith(m.group, DotPy)
                     /\ ~contains(lower(m.group), TestWord)
         IN  (IF keep THEN <<m.group>> ELSE <<>>) \o collect_changed_files(Tail(ls))

\* the second loop of is_single_line_bug, for one sign: the stripped text of every
\* line that starts with the sign, does not start with three of it, and is code
RECURSIVE collect_code_lines(_, _)
collect_code_lines(ls, sign) ==
    IF ls = <<>> THEN <<>>
    ELSE LET line == Head(ls)
             keep == /\ startswith(line, <<sign>>)
                     /\ ~startswith(line, <<sign, sign, sign>>)
                     /\ is_code_line(Tail(line))
         IN  (IF keep THEN <<strip(Tail(line))>> ELSE <<>>)
             \o collect_code_lines(Tail(ls), sign)

\* the patch_content that splits into ls is the empty str
IsEmptyPatch(ls) == ls = << <<>> >>

is_single_line_bug(ls) ==
    IF IsEmptyPatch(ls) THEN <<FALSE, None>>
    ELSE LET files == collect_changed_files(ls)
         IN  IF Len(files) # 1 THEN <<FALSE, None>>
             ELSE LET deleted_code_lines == collect_code_lines(ls, "-")
                      added_code_lines == collect_code_lines(ls, "+")
                  IN  IF Len(deleted_code_lines) = 1 /\ Len(added_code_lines) = 1
                      THEN <<TRUE, [file    |-> files[1],
                                    deleted |-> deleted_code_lines[1],
                                    added   |-> added_code_lines[1]]>>
                      ELSE <<FALSE, None>>

----------------------------------------------------------------------------
(* src/prompts/baseline.py: the diff parser *)

\* a file test that keeps every file
is_python_name_any(file_name) == TRUE

\* the test of extract_file_info that keeps a file
is_python_name(file_name) == endswith(file_name, DotPy)

\* a location list left as the scan appended it
sorted_set_as_appended(locations) == locations

\* sorted(set(locations))
RECURSIVE sorted_set(_)
sorted_set(locations) ==
    IF locations = <<>> THEN <<>>
    ELSE LET m == Min(Range(locations))
         IN  <<m>> \o sorted_set(SelectSeq(locations, LAMBDA x : x # m))

FunctionChange(name, before_lines, after_lines) ==
    [buggy_function_name |-> name,
     function_before     |-> join_lines(before_lines),
     function_after      |-> join_lines(after_lines)]

\* the locals of extract_file_info when its scan starts
ScanStart ==
    [current_function      |-> NoneStr,
     function_before_lines |-> <<>>,
     function_after_lines  |-> <<>>,
     in_function           |-> FALSE,
     buggy_line_locations  |-> <<>>,
     changed_functions     |-> <<>>]

\* the commit of the open function, if it gathered any line
commit_function(st) ==
    IF st.current_function # NoneStr
       /\ (st.function_before_lines # <<>> \/ st.function_after_lines # <<>>)
    THEN Append(st.changed_functions,
                FunctionChange(st.current_function, st.function_before_lines,
                               st.function_after_lines))
    ELSE st.changed_functions

\* a scan that closes the open function at every well-formed hunk header
scan_hunk_header_commit_always(st, line) ==
    LET m == re_search_hunk(line)
    IN  IF ~m.matched THEN st
        ELSE LET context == strip(m.context)
                 fm == re_search_def(context)
                 st1 == IF contains(context, DefSpace)
                        THEN IF fm.matched
                             THEN [st EXCEPT !.changed_functions = commit_function(st),
                                             !.current_function = fm.name,
                                             !.function_before_lines = <<>>,
                                             !.function_after_lines = <<>>,
                                             !.in_function = TRUE]
                             ELSE [st EXCEPT !.changed_functions = commit_function(st),
                                             !.current_function = NoneStr,
                                             !.in_function = FALSE]
                        ELSE [st EXCEPT !.changed_functions = commit_function(st)]
             IN  [st1 EXCEPT !.buggy_line_locations = Append(@, m.old_start)]

\* a scan that keeps the function open at a header that holds def but names no function
scan_hunk_header_keep_open(st, line) ==
    LET m == re_search_hunk(line)
    IN  IF ~m.matched THEN st
        ELSE LET context == strip(m.context)
                 fm == re_search_def(context)
                 st1 == IF contains(context, DefSpace)
                        THEN IF fm.matched
                             THEN [st EXCEPT !.changed_functions = commit_function(st),
                                             !.current_function = fm.name,
                                             !.function_before_lines = <<>>,
                                             !.function_after_lines = <<>>,
                                             !.in_function = TRUE]
                             ELSE [st EXCEPT !.changed_functions = commit_function(st)]
                        ELSE st
             IN  [st1 EXCEPT !.buggy_line_locations = Append(@, m.old_start)]

\* a scan that clears the open function at a header whose context holds no def
scan_hunk_header_clear_without_def(st, line) ==
    LET m == re_search_hunk(line)
    IN  IF ~m.matched THEN st
        ELSE LET context == strip(m.context)
                 fm == re_search_def(context)
                 st1 == IF contains(context, DefSpace)
                        THEN IF fm.matched
                             THEN [st EXCEPT !.changed_functions = commit_function(st),
                                             !.current_function = fm.name,
                                             !.function_before_lines = <<>>,
                                             !.function_after_lines = <<>>,
                                             !.in_function = TRUE]
                             ELSE [st EXCEPT !.changed_functions = commit_function(st),
                                             !.current_function = NoneStr,
                                             !.in_function = FALSE]
                        ELSE [st EXCEPT !.current_function = NoneStr,
                                        !.in_function = FALSE]
             IN  [st1 EXCEPT !.buggy_line_locations = Append(@, m.old_start)]

\* the branch of the scan for a line that starts with @@
scan_hunk_header(st, line) ==
    LET m == re_search_hunk(line)
    IN  IF ~m.matched THEN st
        ELSE LET context == strip(m.context)
                 fm == re_search_def(context)
                 st1 == IF contains(context, DefSpace)
                        THEN IF fm.matched
                             THEN [st EXCEPT !.changed_functions = commit_function(st),
                                             !.current_function = fm.name,
                                             !.function_before_lines = <<>>,
                                             !.function_after_lines = <<>>,
                                             !.in_function = TRUE]
                             ELSE [st EXCEPT !.changed_functions = commit_function(st),
                                             !.current_function = NoneStr,
                                             !.in_function = FALSE]
                        ELSE st
             IN  [st1 EXCEPT !.buggy_line_locations = Append(@, m.old_start)]

\* a scan that gathers the lines with their markers
scan_line_keep_marker(st, line) ==
    IF startswith(line, AtAt) THEN scan_hunk_header(st, line)
    ELSE IF startswith(line, <<"-">>) /\ ~startswith(line, <<"-", "-", "-">>)
    THEN IF st.in_function
         THEN [st EXCEPT !.function_before_lines = Append(@, line)]
         ELSE st
    ELSE IF startswith(line, <<"+">>) /\ ~startswith(line, <<"+", "+", "+">>)
    THEN IF st.in_function
         THEN [st EXCEPT !.function_after_lines = Append(@, line)]
         ELSE st
    ELSE IF startswith(line, <<" ">>) /\ st.in_function
    THEN [st EXCEPT !.function_before_lines = Append(@, line),
                    !.function_after_lines = Append(@, line)]
    ELSE st

\* one turn of the while loop of extract_file_info on a line that is no file marker
scan_line(st, line) ==
    IF startswith(line, AtAt) THEN scan_hunk_header(st, line)
    ELSE IF startswith(line, <<"-">>) /\ ~startswith(line, <<"-", "-", "-">>)
    THEN IF st.in_function
         THEN [st EXCEPT !.function_before_lines = Append(@, Tail(line))]
         ELSE st
    ELSE IF startswith(line, <<"+">>) /\ ~startswith(line, <<"+", "+", "+">>)
    THEN IF st.in_function
         THEN [st EXCEPT !.function_after_lines = Append(@, Tail(line))]
         ELSE st
    ELSE IF startswith(line, <<" ">>) /\ st.in_function
    THEN [st EXCEPT !.function_before_lines = Append(@, Tail(line)),
                    !.function_after_lines = Append(@, Tail(line))]
    ELSE st

\* the while loop of extract_file_info from line i on: the index where it stops (the
\* next file marker or the end of the patch) and the locals there
RECURSIVE scan_block(_, _, _)
scan_block(ls, i, st) ==
    IF i > Len(ls) \/ startswith(ls[i], DiffGit) THEN [i |-> i, st |-> st]
    ELSE scan_block(ls, i + 1, scan_line(st, ls[i]))

\* extract_file_info(lines, start_idx), lines counted from 1
extract_file_info(ls, start_idx) ==
    LET match == re_search_path(ls[start_idx])
        file_path == match.group
        file_name == basename(file_path)
    IN  IF ~match.matched THEN None
        ELSE IF ~is_python_name(file_name) THEN None
        ELSE LET end == scan_block(ls, start_idx + 1, ScanStart)
             IN  [buggy_file_name      |-> file_name,
                  buggy_file_path      |-> file_path,
                  buggy_line_locations |-> sorted_set(end.st.buggy_line_locations),
                  changed_functions    |-> commit_function(end.st),
                  end_index            |-> end.i]

\* a loop that goes on one line after the end of the block it parsed
RECURSIVE parse_from_past_end(_, _, _)
parse_from_past_end(ls, i, infos) ==
    IF i > Len(ls) THEN infos
    ELSE IF startswith(ls[i], DiffGit)
    THEN LET file_info == extract_file_info(ls, i)
         IN  IF file_info # None
             THEN parse_from_past_end(ls, file_info.end_index + 1, Append(infos, file_info))
             ELSE parse_from_past_end(ls, i + 1, infos)
    ELSE parse_from_past_end(ls, i + 1, infos)

\* the while loop of parse_patch from line i on
RECURSIVE parse_from(_, _, _)
parse_from(ls, i, infos) ==
    IF i > Len(ls) THEN infos
    ELSE IF startswith(ls[i], DiffGit)
    THEN LET file_info == extract_file_info(ls, i)
         IN  IF file_info # None
             THEN parse_from(ls, file_info.end_index, Append(infos, file_info))
             ELSE parse_from(ls, i + 1, infos)
    ELSE parse_from(ls, i + 1, infos)

parse_patch(ls) == IF IsEmptyPatch(ls) THEN <<>> ELSE parse_from(ls, 1, <<>>)

----------------------------------------------------------------------------
(* src/prompts/baseline.py: read_bug_info, read_bug_patch and analyze_bug *)

\* a file that does not exist; one that does is [exists |-> TRUE, content |-> ...]
NoFile == [exists |-> FALSE]

\* s.split(c, 1)[1]: the text after the first c, for s that holds c
RECURSIVE after_first(_, _)
after_first(s, c) == IF Head(s) = c THEN Tail(s) ELSE after_first(Tail(s), c)

\* s.strip(c) for a character c
RECURSIVE strip_char(_, _)
strip_char(s, c) ==
    IF s # <<>> /\ Head(s) = c THEN strip_char(Tail(s), c)
    ELSE IF s # <<>> /\ s[Len(s)] = c THEN strip_char(SubSeq(s, 1, Len(s) - 1), c)
    ELSE s

\* the loop over the lines of bug.info, bug_info the dict so far
RECURSIVE read_info_lines(_, _)
read_info_lines(ls, bug_info) ==
    IF ls = <<>> THEN bug_info
    ELSE LET line == strip(Head(ls))
         IN  IF contains(line, <<"=">>) /\ ~startswith(line, <<"#">>)
             THEN LET key == strip(split_first(line, "="))
                      value == strip_char(strip(after_first(line, "=")), "\"")
                  IN  read_info_lines(Tail(ls),
                          [k \in DOMAIN bug_info \cup {key} |->
                              IF k = key THEN value ELSE bug_info[k]])
             ELSE read_info_lines(Tail(ls), bug_info)

\* None, or the dict of the file as [dict |-> bug_info]
read_bug_info(file) ==
    IF ~file.exists THEN None ELSE [dict |-> read_info_lines(file.content, EmptyDict)]

\* not bug_info
no_bug_info(bug_info) == bug_info = None \/ DOMAIN bug_info.dict = {}

\* the keys of bug.info that analyze_bug copies into bug_description
DescriptionKeys ==
    [python_version |->
        <<"p", "y", "t", "h", "o", "n", "_", "v", "e", "r", "s", "i", "o", "n">>,
     buggy_commit_id |->
        <<"b", "u", "g", "g", "y", "_", "c", "o", "m", "m", "i", "t", "_", "i", "d">>,
     fixed_commit_id |->
        <<"f", "i", "x", "e", "d", "_", "c", "o", "m", "m", "i", "t", "_", "i", "d">>,
     test_file |->
        <<"t", "e", "s", "t", "_", "f", "i", "l", "e">>,
     github_url |->
        <<"g", "i", "t", "h", "u", "b", "_", "u", "r", "l">>]

\* the dict bug_description
bug_description(bug_info) ==
    [k \in DOMAIN DescriptionKeys |-> get(bug_info, DescriptionKeys[k], <<>>)]

\* an analyzer that takes the parser's word and does not ask the filter
analyze_bug_unfiltered(project_name, bug_id, file, has_patch, ls) ==
    LET bug_info == read_bug_info(file)
    IN  IF no_bug_info(bug_info) THEN None
        ELSE IF ~has_patch \/ IsEmptyPatch(ls) THEN None
        ELSE IF parse_patch(ls) = <<>> THEN None
        ELSE [project            |-> project_name,
              bug_id             |-> bug_id,
              single_line_change |-> is_single_line_bug(ls)[2],
              bug_description    |-> bug_description(bug_info.dict),
              files              |-> parse_patch(ls)]

\* file is the bug.info file, has_patch tells whether bug_patch.txt exists and
\* ls is its text split into lines
analyze_bug(project_name, bug_id, file, has_patch, ls) ==
    LET bug_info == read_bug_info(file)
    IN  IF no_bug_info(bug_info) THEN None
        ELSE IF ~has_patch \/ IsEmptyPatch(ls) THEN None
        ELSE LET single_line_info == is_single_line_bug(ls)
             IN  IF ~single_line_info[1] THEN None
                 ELSE IF parse_patch(ls) = <<>> THEN None
                 ELSE [project            |-> project_name,
                       bug_id             |-> bug_id,
                       single_line_change |-> single_line_info[2],
                       bug_description    |-> bug_description(bug_info.dict),
                       files              |-> parse_patch(ls)]

----------------------------------------------------------------------------
(* The components at rest *)

EvalIdle ==
    /\ epc = "idle"
    /\ generated = <<>>
    /\ expected = <<>>
    /\ gen_normalized = <<>>
    /\ exp_normalized = <<>>
    /\ verdict = "none"
    /\ renormalized = <<>>

PatchIdle ==
    /\ ppc = "idle"
    /\ lines = <<>>
    /\ changed_files = <<>>
    /\ single_line = <<FALSE, None>>
    /\ bugs_info = <<>>

AggIdle ==
    /\ apc = "idle"
    /\ all_results = <<>>
    /\ aggregated = <<>>

MainIdle ==
    /\ mpc = "idle"
    /\ output_files = <<>>
    /\ file_idx = 0

AnalyzeIdle ==
    /\ zpc = "idle"
    /\ bug_info_file = NoFile
    /\ patch_exists = FALSE
    /\ bug_data = None

ScanIdle ==
    /\ spc = "idle"
    /\ scan_i = 0
    /\ scan_st = ScanStart
    /\ scan_result = None

OllamaIdle ==
    /\ opc = "idle"
    /\ retry_count = 0
    /\ invocations = <<>>
    /\ completion = NoneStr

GenerateIdle ==
    /\ gpc = "idle"
    /\ n_samples = 0
    /\ futures = <<>>
    /\ gen_results = <<>>

\* every component but c is at rest
IdleExcept(c) ==
    /\ IF c = "eval" THEN TRUE ELSE EvalIdle
    /\ IF c \in {"patch", "analyze", "scan"} THEN TRUE ELSE PatchIdle
    /\ IF c \in {"agg", "main"} THEN TRUE ELSE AggIdle
    /\ IF c = "main" THEN TRUE ELSE MainIdle
    /\ IF c = "analyze" THEN TRUE ELSE AnalyzeIdle
    /\ IF c = "scan" THEN TRUE ELSE ScanIdle
    /\ IF c = "ollama" THEN TRUE ELSE OllamaIdle
    /\ IF c = "generate" THEN TRUE ELSE GenerateIdle

----------------------------------------------------------------------------
(* The evaluator's inputs *)

Pieces ==
    { Fence, FencePython, <<" ">>, <<"\n">>, <<"#">>, <<"x">>, <<"\"">>, <<"'">> }

RECURSIVE Concat(_)
Concat(ps) == IF ps = <<>> THEN <<>> ELSE Head(ps) \o Concat(Tail(ps))

\* the texts made of exactly n pieces
Texts(n) == { Concat(ps) : ps \in [1..n -> Pieces] }

Indents == { <<>>, <<" ", " ", " ", " ">>, <<"\t">> }
Comments == { <<" ", " ", "#", " ", "f", "i", "x">>, <<"#", "x">> }

\* a fence line tagged python, then e indented and followed by a comment, then a bare fence line
Fenced(ind, e, cmt) == FencePython \o <<"\n">> \o ind \o e \o cmt \o <<"\n">> \o Fence

IsFencedSample(g, e) == \E ind \in Indents, cmt \in Comments : g = Fenced(ind, e, cmt)

SingleLine(s) == ~contains(s, <<"\n">>)

BeginsWithFence(s) == startswith(lstrip(s), Fence)

EvalInit ==
    /\ IdleExcept("eval")
    /\ epc = "input"
    /\ \E n \in 0..MaxPieces : \E k \in 0..n :
          /\ expected \in Texts(k)
          /\ \/ generated \in Texts(n - k)
             \/ /\ SingleLine(expected)
                /\ \E ind \in Indents, cmt \in Comments :
                      generated = Fenced(ind, expected, cmt)
    /\ gen_normalized = <<>>
    /\ exp_normalized = <<>>
    /\ verdict = "none"
    /\ renormalized = <<>>

\* one call is_code_correct(generated, expected)
IsCodeCorrect ==
    /\ epc = "input"
    /\ gen_normalized' = normalize_code(generated)
    /\ exp_normalized' = normalize_code(expected)
    /\ verdict' = is_code_correct(generated, expected)
    /\ epc' = "checked"
    /\ UNCHANGED <<generated, expected, renormalized, notEvalVars>>

\* normalize_code applied to its own output
Renormalize ==
    /\ epc = "checked"
    /\ renormalized' = normalize_code(gen_normalized)
    /\ epc' = "renormalized"
    /\ UNCHANGED <<generated, expected, gen_normalized, exp_normalized, verdict, notEvalVars>>

EvalNext == IsCodeCorrect \/ Renormalize

SpecEval == EvalInit /\ [][EvalNext]_vars

----------------------------------------------------------------------------
(* Claims about the evaluator *)

\* C1: normalize_code is idempotent: normalizing a normalized text changes nothing.
C1_Idempotent == epc = "renormalized" => renormalized = gen_normalized

\* C2: is_code_correct is true exactly when the normalized forms are equal, or the
\* normalized expected fix is a substring of the normalized sample, or they are equal
\* once every double quote is a single quote; it is false in every other case.
C2_Decision ==
    epc # "input" =>
        LET g == normalize_code(generated)
            e == normalize_code(expected)
            rule1 == g = e
            rule2 == \E i \in 1..(Len(g) - Len(e) + 1) : SubSeq(g, i, i + Len(e) - 1) = e
            rule3 == /\ Len(g) = Len(e)
                     /\ \A i \in 1..Len(g) :
                           \/ g[i] = e[i]
                           \/ {g[i], e[i]} = {"\"", "'"}
        IN  /\ verdict \in BOOLEAN
            /\ verdict = (rule1 \/ rule2 \/ rule3)

C2_Witness ==
    /\ epc = "checked"
    /\ verdict = TRUE
    /\ gen_normalized # exp_normalized
    /\ ~contains(gen_normalized, exp_normalized)

\* C3: a sample whose normalized form is strictly shorter than the normalized
\* expected fix is never correct, also when it is a substring of the expected fix.
C3_OneDirectional ==
    (epc # "input" /\ Len(gen_normalized) < Len(exp_normalized)) => verdict = FALSE

C3_Witness ==
    /\ epc = "checked"
    /\ Len(gen_normalized) < Len(exp_normalized)
    /\ gen_normalized # <<>>
    /\ contains(exp_normalized, gen_normalized)
    /\ verdict = FALSE

\* C4: a sample that fences a single-line expected fix (one that does not begin with
\* a fence itself) between a fence line tagged python and a bare fence line, indented and followed by
\* a comment, normalizes to the same text as the fix and is judged correct.
C4_FencedSample ==
    (/\ epc # "input"
     /\ SingleLine(expected)
     /\ ~BeginsWithFence(expected)
     /\ IsFencedSample(generated, expected))
        => (gen_normalized = exp_normalized /\ verdict = TRUE)

C4_Witness ==
    /\ epc = "checked"
    /\ expected = <<"x", " ", "\"">>
    /\ generated = Fenced(<<" ", " ", " ", " ">>, expected, <<" ", " ", "#", " ", "f", "i", "x">>)
    /\ gen_normalized = expected
    /\ verdict = TRUE

----------------------------------------------------------------------------
(* The patch miner's inputs *)

\* f.py
PathF ==
    <<"f", ".", "p", "y">>

\* lib/g.py
PathLib ==
    <<"l", "i", "b", "/", "g", ".", "p", "y">>

\* Test/t.py
PathTest ==
    <<"T", "e", "s", "t", "/", "t", ".", "p", "y">>

\* d.md
PathDoc ==
    <<"d", ".", "m", "d">>

Paths == { PathF, PathLib, PathTest, PathDoc }

\* the file marker of the grammar: diff --git a/<path> b/<path>
Marker(path) == DiffGit \o <<" ", "a", "/">> \o path \o <<" ", "b", "/">> \o path

\* -  x = 1
RemovedCode ==
    <<"-", " ", " ", "x", " ", "=", " ", "1">>

\* +  x = 2
AddedCode ==
    <<"+", " ", " ", "x", " ", "=", " ", "2">>

\* -  # c
RemovedComment ==
    <<"-", " ", " ", "#", " ", "c">>

\* + 
AddedBlank ==
    <<"+", " ">>

\* --- a/f.py
OldFileLine ==
    <<"-", "-", "-", " ", "a", "/", "f", ".", "p", "y">>

\* +++ b/f.py
NewFileLine ==
    <<"+", "+", "+", " ", "b", "/", "f", ".", "p", "y">>

\*  y
ContextLine ==
    <<" ", "y">>

\* @@ -12,5 +12,6 @@ def add(a):
HunkAdd ==
    <<"@", "@", " ", "-", "1", "2", ",", "5", " ", "+", "1", "2", ",", "6", " ", "@",
      "@", " ", "d", "e", "f", " ", "a", "d", "d", "(", "a", ")", ":">>

\* @@ -3 +3 @@
HunkBare ==
    <<"@", "@", " ", "-", "3", " ", "+", "3", " ", "@", "@">>

\* @@ -12 +9,2 @@ class A:
HunkClass ==
    <<"@", "@", " ", "-", "1", "2", " ", "+", "9", ",", "2", " ", "@", "@", " ", "c",
      "l", "a", "s", "s", " ", "A", ":">>

\* @@ bad
HunkBad ==
    <<"@", "@", " ", "b", "a", "d">>

\* @@ -7,2 +7,2 @@ def :
HunkDefOnly ==
    <<"@", "@", " ", "-", "7", ",", "2", " ", "+", "7", ",", "2", " ", "@", "@", " ",
      "d", "e", "f", " ", ":">>

\* @@ -20,1 +20,1 @@ def sub(a):
HunkSub ==
    <<"@", "@", " ", "-", "2", "0", ",", "1", " ", "+", "2", "0", ",", "1", " ", "@",
      "@", " ", "d", "e", "f", " ", "s", "u", "b", "(", "a", ")", ":">>

\* the lines of the patches the filter is run on
FilterLines ==
    { Marker(PathF), Marker(PathLib), Marker(PathTest), Marker(PathDoc),
      RemovedCode, AddedCode, RemovedComment, AddedBlank, OldFileLine, NewFileLine,
      ContextLine }

\* the lines of the patches the parser is run on
ParseLines ==
    { Marker(PathF), Marker(PathLib), Marker(PathDoc),
      HunkAdd, HunkBare, HunkClass, HunkBad, HunkDefOnly, HunkSub,
      RemovedCode, AddedCode, ContextLine }

\* the patches of at most MaxLines lines; str.split gives at least one line
Patches(L) == UNION { [1..n -> L] : n \in 1..MaxLines } \cup { << <<>> >> }

FilterInit ==
    /\ IdleExcept("patch")
    /\ ppc = "input"
    /\ lines \in Patches(FilterLines)
    /\ changed_files = <<>>
    /\ single_line = <<FALSE, None>>
    /\ bugs_info = <<>>

ParseInit ==
    /\ IdleExcept("patch")
    /\ ppc = "input"
    /\ lines \in Patches(ParseLines)
    /\ changed_files = <<>>
    /\ single_line = <<FALSE, None>>
    /\ bugs_info = <<>>

\* one call is_single_line_bug(patch_content)
IsSingleLineBug ==
    /\ ppc = "input"
    /\ changed_files' = (IF IsEmptyPatch(lines) THEN <<>> ELSE collect_changed_files(lines))
    /\ single_line' = is_single_line_bug(lines)
    /\ ppc' = "filtered"
    /\ UNCHANGED <<lines, bugs_info, notPatchVars>>

\* one call parse_patch(patch_content)
ParsePatch ==
    /\ ppc = "input"
    /\ bugs_info' = parse_patch(lines)
    /\ ppc' = "parsed"
    /\ UNCHANGED <<lines, changed_files, single_line, notPatchVars>>

FilterNext == IsSingleLineBug

ParseNext == ParsePatch

SpecFilter == FilterInit /\ [][FilterNext]_vars

SpecParse == ParseInit /\ [][ParseNext]_vars

----------------------------------------------------------------------------
(* Claims about the single-line-bug filter *)

\* a removed or added line of the patch that is code: it starts with the sign but not
\* with three of it, and its text after the sign, stripped, is non-empty and does not
\* start with #
IsCodeChange(line, sign) ==
    /\ line # <<>>
    /\ line[1] = sign
    /\ ~(Len(line) >= 3 /\ line[2] = sign /\ line[3] = sign)
    /\ LET text == strip(Tail(line)) IN text # <<>> /\ text[1] # "#"

RemovedCodeLines == { i \in DOMAIN lines : IsCodeChange(lines[i], "-") }

AddedCodeLines == { i \in DOMAIN lines : IsCodeChange(lines[i], "+") }

\* C5: when the qualifying-file test passed, is_single_line_bug succeeds exactly when
\* the whole patch holds one removed code line and one added code line; it then
\* returns the two lines stripped, and (False, None) otherwise.
C5_OneRemovedOneAdded ==
    (ppc = "filtered" /\ Len(changed_files) = 1) =>
        IF Cardinality(RemovedCodeLines) = 1 /\ Cardinality(AddedCodeLines) = 1
        THEN /\ single_line[1] = TRUE
             /\ single_line[2].file = changed_files[1]
             /\ \A i \in RemovedCodeLines : single_line[2].deleted = strip(Tail(lines[i]))
             /\ \A i \in AddedCodeLines : single_line[2].added = strip(Tail(lines[i]))
        ELSE single_line = <<FALSE, None>>

C5_Witness ==
    /\ ppc = "filtered"
    /\ lines = <<Marker(PathF), RemovedCode, RemovedComment, AddedCode>>
    /\ single_line[1] = TRUE
    /\ single_line[2].deleted = <<"x", " ", "=", " ", "1">>
    /\ single_line[2].added = <<"x", " ", "=", " ", "2">>

\* the post-image paths the filter takes from the file markers of the patch and keeps:
\* those ending in .py that do not hold "test" in any case
QualifyingPaths ==
    { re_search_path(lines[i]).group :
        i \in { j \in DOMAIN lines :
                  /\ startswith(lines[j], DiffGit)
                  /\ re_search_path(lines[j]).matched
                  /\ endswith(re_search_path(lines[j]).group, DotPy)
                  /\ ~contains(lower(re_search_path(lines[j]).group), TestWord) } }

\* C6: the qualifying-file test passes exactly when the set of distinct qualifying
\* post-image paths has one element; with any other number of distinct paths the
\* classification fails with (False, None).
C6_DistinctPaths ==
    ppc = "filtered" =>
        /\ (Len(changed_files) = 1) <=> (Cardinality(QualifyingPaths) = 1)
        /\ Cardinality(QualifyingPaths) # 1 => single_line = <<FALSE, None>>
        /\ (/\ Cardinality(QualifyingPaths) = 1
            /\ Cardinality(RemovedCodeLines) = 1
            /\ Cardinality(AddedCodeLines) = 1) => single_line[1] = TRUE

\* C7: for every file marker diff --git a/<path> b/<path> the post-image path that
\* the filter returns as 'file' and that the parser stores as buggy_file_path is <path>.
C7_PostImagePath ==
    /\ (ppc = "filtered" /\ single_line[1] = TRUE) =>
          \E p \in Paths : /\ \E i \in DOMAIN lines : lines[i] = Marker(p)
                           /\ single_line[2].file = p
    /\ ppc = "parsed" =>
          \A k \in DOMAIN bugs_info :
              \E p \in Paths : /\ \E i \in DOMAIN lines : lines[i] = Marker(p)
                               /\ bugs_info[k].buggy_file_path = p

----------------------------------------------------------------------------
(* Claims about the diff parser *)

\* the hunk headers of the grammar @@ -<oldStart>[,<oldCount>] +<newStart>[,<newCount>] @@<context>
\* among the lines of the model, each with its oldStart
OldStartOf ==
    { <<HunkAdd, 12>>, <<HunkBare, 3>>, <<HunkClass, 12>>, <<HunkDefOnly, 7>>, <<HunkSub, 20>> }

RECURSIVE Ascending(_)
Ascending(S) == IF S = {} THEN <<>> ELSE <<Min(S)>> \o Ascending(S \ {Min(S)})

\* the lines that are file markers, and those of a file whose name ends in .py
MarkerIdx == { i \in DOMAIN lines : \E p \in Paths : lines[i] = Marker(p) }

PyMarkerIdx ==
    { i \in DOMAIN lines : \E p \in Paths : endswith(p, DotPy) /\ lines[i] = Marker(p) }

\* the block of the file marker at line i ends before the next file marker
BlockEnd(i) == Min({ j \in MarkerIdx : j > i } \cup { Len(lines) + 1 })

\* the oldStart values of the well-formed hunk headers in the block of marker i
BlockOldStarts(i) ==
    { h[2] : h \in { g \in OldStartOf : \E j \in (i + 1)..(BlockEnd(i) - 1) : lines[j] = g[1] } }

\* C8: the buggy_line_locations of every FileChange are the oldStart values of the
\* well-formed hunk headers of its block, with or without a function in the context,
\* in strictly ascending order and without duplicates; a malformed @@ line adds none.
C8_Locations ==
    ppc = "parsed" =>
        \A k \in DOMAIN bugs_info :
            k <= Cardinality(PyMarkerIdx) =>
                LET locs == bugs_info[k].buggy_line_locations
                    i == Ascending(PyMarkerIdx)[k]
                IN  /\ Range(locs) = BlockOldStarts(i)
                    /\ \A a, b \in DOMAIN locs : a < b => locs[a] < locs[b]

C8_Witness ==
    /\ ppc = "parsed"
    /\ lines = <<Marker(PathF), HunkAdd, HunkBad, HunkBare>>
    /\ Len(bugs_info) = 1
    /\ bugs_info[1].buggy_line_locations = <<3, 12>>

\* the FileChange that parse_patch gives for the block of marker i taken alone
BlockAlone(i) == parse_patch(SubSeq(lines, i, BlockEnd(i) - 1))

\* C9: parse_patch returns, in input order, one FileChange for each file marker of a
\* file whose name ends in .py and none for another file; each FileChange is made of
\* its own block only, so the block of a skipped file adds to none; without such a
\* marker the result is the empty list.
C9_PythonFilesOnly ==
    ppc = "parsed" =>
        /\ Len(bugs_info) = Cardinality(PyMarkerIdx)
        /\ \A k \in DOMAIN bugs_info :
              LET i == Ascending(PyMarkerIdx)[k]
                  fc == bugs_info[k]
                  alone == BlockAlone(i)
              IN  /\ \E p \in Paths : lines[i] = Marker(p) /\ endswith(p, fc.buggy_file_name)
                  /\ endswith(fc.buggy_file_name, DotPy)
                  /\ fc.end_index = BlockEnd(i)
                  /\ Len(alone) = 1
                  /\ fc.buggy_line_locations = alone[1].buggy_line_locations
                  /\ fc.changed_functions = alone[1].changed_functions

C9_Witness ==
    /\ ppc = "parsed"
    /\ lines = <<Marker(PathDoc), HunkAdd, Marker(PathF), HunkBare>>
    /\ Len(bugs_info) = 1
    /\ bugs_info[1].buggy_file_name = PathF
    /\ bugs_info[1].buggy_line_locations = <<3>>

----------------------------------------------------------------------------
(* src/evaluate/eval.py: aggregate_results *)

RECURSIVE gcd(_, _)
gcd(a, b) == IF b = 0 THEN a ELSE gcd(b, a % b)

\* the quotient a / b of two naturals, b > 0, as a fraction in lowest terms
Quotient(a, b) == <<a \div gcd(a, b), b \div gcd(a, b)>>

\* the number 0
Zero == <<0, 1>>

\* a / b if b > 0 else 0
ratio(a, b) == IF b > 0 THEN Quotient(a, b) ELSE Zero

\* sum(r[field] for r in rs)
RECURSIVE sum_field(_, _)
sum_field(rs, field) == IF rs = <<>> THEN 0 ELSE Head(rs)[field] + sum_field(Tail(rs), field)

\* the number of bugs that have a sample at all
RECURSIVE count_solved_any_sample(_)
count_solved_any_sample(rs) ==
    IF rs = <<>> THEN 0
    ELSE (IF Head(rs).total_samples > 0 THEN 1 ELSE 0) + count_solved_any_sample(Tail(rs))

\* sum(1 for r in rs if r["correct_samples"] > 0)
RECURSIVE count_solved(_)
count_solved(rs) ==
    IF rs = <<>> THEN 0
    ELSE (IF Head(rs).correct_samples > 0 THEN 1 ELSE 0) + count_solved(Tail(rs))

\* the mean of the accuracies of the bugs, each bug weighing the same
RECURSIVE sum_of_accuracies(_)
sum_of_accuracies(rs) ==
    IF rs = <<>> THEN Zero
    ELSE LET a == ratio(Head(rs).correct_samples, Head(rs).total_samples)
             b == sum_of_accuracies(Tail(rs))
         IN  Quotient(a[1] * b[2] + b[1] * a[2], a[2] * b[2])

overall_accuracy_bug_averaged(rs) ==
    LET t == sum_of_accuracies(rs)
    IN  IF Len(rs) > 0 THEN Quotient(t[1], t[2] * Len(rs)) ELSE Zero

\* total_correct / total_samples if total_samples > 0 else 0
overall_accuracy(rs) == ratio(sum_field(rs, "correct_samples"), sum_field(rs, "total_samples"))

\* the report of one group, rs the per-bug results of the group
group_aggregate(rs) ==
    [total_bugs                     |-> Len(rs),
     total_samples                  |-> sum_field(rs, "total_samples"),
     total_correct                  |-> sum_field(rs, "correct_samples"),
     overall_accuracy               |-> overall_accuracy(rs),
     bugs_with_at_least_one_correct |-> count_solved(rs),
     bugs_solved_rate               |-> ratio(count_solved(rs), Len(rs))]

\* by_style[style]: the results of the style, one for each result that has the style
RECURSIVE by_style(_, _)
by_style(results, style) ==
    IF results = <<>> THEN <<>>
    ELSE (IF style \in DOMAIN Head(results).results
          THEN <<Head(results).results[style]>> ELSE <<>>)
         \o by_style(Tail(results), style)

\* the entries of rs that are truthy
RECURSIVE truthy(_)
truthy(rs) ==
    IF rs = <<>> THEN <<>>
    ELSE (IF Head(rs) # None THEN <<Head(rs)>> ELSE <<>>) \o truthy(Tail(rs))

\* by_experiment[exp_type], rs the truthy entries
RECURSIVE by_experiment(_, _)
by_experiment(rs, exp_type) ==
    IF rs = <<>> THEN <<>>
    ELSE (IF Head(rs).experiment = exp_type THEN <<Head(rs)>> ELSE <<>>)
         \o by_experiment(Tail(rs), exp_type)

\* [r["results"] for r in results]
results_of(results) == [i \in 1..Len(results) |-> results[i].results]

\* a report that has every experiment's group, also those with no result
aggregate_results_zero_filled(rs) ==
    LET present == truthy(rs)
    IN  [exp_type \in {"baseline", "cfn-modified", "fln-all", "fn-all"} |->
            LET results == by_experiment(present, exp_type)
            IN  IF exp_type = "baseline"
                THEN LET styles == UNION { DOMAIN results[i].results : i \in 1..Len(results) }
                     IN  [style \in styles |-> group_aggregate(by_style(results, style))]
                ELSE group_aggregate(results_of(results))]

aggregate_results(rs) ==
    LET present == truthy(rs)
        exp_types == { present[i].experiment : i \in 1..Len(present) }
    IN  [exp_type \in exp_types |->
            LET results == by_experiment(present, exp_type)
            IN  IF exp_type = "baseline"
                THEN LET styles == UNION { DOMAIN results[i].results : i \in 1..Len(results) }
                     IN  [style \in styles |-> group_aggregate(by_style(results, style))]
                ELSE group_aggregate(results_of(results))]

----------------------------------------------------------------------------
(* src/evaluate/eval.py: evaluate_output_file *)

\* the style labels, in the order of the loop
PromptStyles == <<"Instruction", "InstructionLabel", "InstructionMask">>

\* sum(correct_samples)
RECURSIVE sum_true(_)
sum_true(bs) == IF bs = <<>> THEN 0 ELSE (IF Head(bs) THEN 1 ELSE 0) + sum_true(Tail(bs))

\* the result entry of the samples outputs
sample_results(outputs, expected_fix) ==
    LET correct_samples == [i \in 1..Len(outputs) |-> is_code_correct(outputs[i], expected_fix)]
        n == Len(outputs)
        c == sum_true(correct_samples)
    IN  [total_samples      |-> n,
         correct_samples    |-> c,
         accuracy           |-> ratio(c, n),
         individual_results |-> correct_samples]

\* the loop over the styles that gives every style a result entry
style_results_zero_filled(output_data, expected_fix) ==
    [style \in { PromptStyles[i] : i \in 1..Len(PromptStyles) } |->
        sample_results(get(get(output_data, "outputs", EmptyDict), style, <<>>), expected_fix)]

\* results after the loop over the styles: an entry for each style that has outputs
style_results(output_data, expected_fix) ==
    LET outputs(style) == get(get(output_data, "outputs", EmptyDict), style, <<>>)
    IN  [style \in { st \in { PromptStyles[i] : i \in 1..Len(PromptStyles) } :
                        outputs(st) # <<>> } |->
            sample_results(outputs(style), expected_fix)]

\* output_data is the content of the output file, bug_data_file the content
\* of the bug data file of its project and bug_id, None if that file does not exist
evaluate_output_file(output_data, bug_data_file, experiment_type) ==
    IF bug_data_file = None THEN None
    ELSE LET single_change == get(bug_data_file, "single_line_change", EmptyDict)
             expected_fix == get(single_change, "added", <<>>)
         IN  IF expected_fix = <<>> THEN None
             ELSE IF experiment_type = "baseline"
             THEN [project      |-> get(output_data, "project", "unknown"),
                   bug_id       |-> get(output_data, "bug_id", "unknown"),
                   experiment   |-> experiment_type,
                   expected_fix |-> expected_fix,
                   results      |-> style_results(output_data, expected_fix)]
             ELSE LET outputs == get(output_data, "outputs", <<>>)
                  IN  IF outputs = <<>> THEN None
                      ELSE [project      |-> get(output_data, "project", "unknown"),
                            bug_id       |-> get(output_data, "bug_id", "unknown"),
                            experiment   |-> experiment_type,
                            heuristic    |-> get(output_data, "heuristic", EmptyDict),
                            expected_fix |-> expected_fix,
                            results      |-> sample_results(outputs, expected_fix)]

----------------------------------------------------------------------------
(* The aggregator's inputs *)

\* the style labels and heuristic experiments of the results aggregated
StyleLabels == { "Instruction", "InstructionLabel" }

HeuristicTypes == { "cfn-modified", "fln-all" }

\* the (total_samples, correct_samples) of the per-bug results aggregated
SampleCounts ==
    { [total_samples |-> c[1], correct_samples |-> c[2]] :
        c \in { <<0, 0>>, <<1, 1>>, <<2, 0>>, <<3, 2>> } }

BaselineResults ==
    { [experiment |-> "baseline", results |-> r] :
        r \in UNION { [S -> SampleCounts] : S \in SUBSET StyleLabels } }

HeuristicResults ==
    { [experiment |-> h, results |-> r] : h \in HeuristicTypes, r \in SampleCounts }

ResultEntries == BaselineResults \cup HeuristicResults \cup { None }

AggInit ==
    /\ IdleExcept("agg")
    /\ apc = "input"
    /\ all_results \in UNION { [1..n -> ResultEntries] : n \in 0..MaxResults }
    /\ aggregated = <<>>

\* one call aggregate_results(all_results)
AggregateResults ==
    /\ apc = "input"
    /\ aggregated' = aggregate_results(all_results)
    /\ apc' = "aggregated"
    /\ UNCHANGED <<all_results, notAggVars>>

AggNext == AggregateResults

SpecAgg == AggInit /\ [][AggNext]_vars

----------------------------------------------------------------------------
(* src/evaluate/eval.py: the main program, over the output files found *)

\* the most output files of a run
MaxFiles == 2

\* the samples of the output files and the expected fix of the bug data
SampleGood == <<"x">>

SampleBad == <<"y">>

\* the lists of samples of a style or of a heuristic experiment
OutputLists == { <<>>, <<SampleGood>>, <<SampleBad, SampleGood>> }

\* the content of a baseline output file: outputs may be missing, and may miss styles
BaselineOutputData ==
    { [project |-> "p", bug_id |-> "1"] }
    \cup { [project |-> "p", bug_id |-> "1", outputs |-> o] :
             o \in UNION { [S -> OutputLists] : S \in SUBSET StyleLabels } }

\* the content of a heuristic output file: outputs may be missing
HeuristicOutputData ==
    { [project |-> "p", bug_id |-> "1"] }
    \cup { [project |-> "p", bug_id |-> "1", outputs |-> o] : o \in OutputLists }

\* the bug data file: missing, without a single_line_change, or with one
BugDataFiles ==
    { None,
      [project |-> "p", bug_id |-> "1"],
      [project |-> "p", bug_id |-> "1",
       single_line_change |-> [file |-> "f.py", deleted |-> SampleBad, added |-> SampleGood]] }

OutputFiles ==
    { [exp_type |-> "baseline", output_data |-> o, bug_data |-> b] :
        o \in BaselineOutputData, b \in BugDataFiles }
    \cup { [exp_type |-> h, output_data |-> o, bug_data |-> b] :
             h \in HeuristicTypes, o \in HeuristicOutputData, b \in BugDataFiles }

MainInit ==
    /\ IdleExcept("main")
    /\ apc = "idle"
    /\ mpc = "evaluating"
    /\ output_files \in UNION { [1..n -> OutputFiles] : n \in 0..MaxFiles }
    /\ file_idx = 0
    /\ all_results = <<>>
    /\ aggregated = <<>>

\* total_files == 0: exit(1)
NoOutputFiles ==
    /\ mpc = "evaluating"
    /\ Len(output_files) = 0
    /\ mpc' = "exit"
    /\ UNCHANGED <<output_files, file_idx, all_results, aggregated, notMainVars>>

\* one turn of the loop over output_files
EvaluateOutputFile ==
    /\ mpc = "evaluating"
    /\ file_idx < Len(output_files)
    /\ LET f == output_files[file_idx + 1]
           result == evaluate_output_file(f.output_data, f.bug_data, f.exp_type)
       IN  all_results' = IF result # None THEN Append(all_results, result) ELSE all_results
    /\ file_idx' = file_idx + 1
    /\ UNCHANGED <<mpc, output_files, aggregated, notMainVars>>

\* after the loop: if all_results: aggregated = aggregate_results(all_results)
AggregateAll ==
    /\ mpc = "evaluating"
    /\ Len(output_files) > 0
    /\ file_idx = Len(output_files)
    /\ aggregated' = IF all_results # <<>> THEN aggregate_results(all_results) ELSE aggregated
    /\ mpc' = "done"
    /\ UNCHANGED <<output_files, file_idx, all_results, notMainVars>>

MainNext == NoOutputFiles \/ EvaluateOutputFile \/ AggregateAll

SpecMain == MainInit /\ [][MainNext]_vars

----------------------------------------------------------------------------
(* Claims about the aggregator *)

\* the entries of all_results that are results of experiment e
EntriesOf(e) ==
    { i \in DOMAIN all_results : all_results[i] # None /\ all_results[i].experiment = e }

\* the baseline entries that have a result for style s
StyleEntriesOf(s) == { i \in EntriesOf("baseline") : s \in DOMAIN all_results[i].results }

\* the sum of f over the finite set S
RECURSIVE SumOver(_, _)
SumOver(S, f) ==
    IF S = {} THEN 0 ELSE LET x == CHOOSE y \in S : TRUE IN f[x] + SumOver(S \ {x}, f)

\* report gives the sums and the sample-weighted accuracy of the per-bug results r[i], i in S
SampleWeighted(report, S, r) ==
    LET samples == SumOver(S, [i \in S |-> r[i].total_samples])
        correct == SumOver(S, [i \in S |-> r[i].correct_samples])
    IN  /\ report.total_samples = samples
        /\ report.total_correct = correct
        /\ IF samples = 0 THEN report.overall_accuracy = Zero
           ELSE /\ report.overall_accuracy[2] > 0
                /\ report.overall_accuracy[1] * samples = correct * report.overall_accuracy[2]

\* C10: every group (an experiment key, or a style label of the baseline experiment)
\* reports total_samples and total_correct as the sums over its bugs and
\* overall_accuracy = total_correct / total_samples, and 0 when total_samples is 0.
C10_SampleWeighted ==
    apc = "aggregated" =>
        /\ DOMAIN aggregated = { e \in HeuristicTypes \cup {"baseline"} : EntriesOf(e) # {} }
        /\ \A e \in DOMAIN aggregated \ {"baseline"} :
              SampleWeighted(aggregated[e], EntriesOf(e),
                             [i \in EntriesOf(e) |-> all_results[i].results])
        /\ "baseline" \in DOMAIN aggregated =>
              /\ DOMAIN aggregated["baseline"] = { s \in StyleLabels : StyleEntriesOf(s) # {} }
              /\ \A s \in DOMAIN aggregated["baseline"] :
                    SampleWeighted(aggregated["baseline"][s], StyleEntriesOf(s),
                                   [i \in StyleEntriesOf(s) |-> all_results[i].results[s]])

C10_Witness ==
    /\ apc = "aggregated"
    /\ Len(all_results) = 2
    /\ "baseline" \in DOMAIN aggregated
    /\ "InstructionLabel" \in DOMAIN aggregated["baseline"]
    /\ aggregated["baseline"]["InstructionLabel"].total_bugs = 2
    /\ aggregated["baseline"]["InstructionLabel"].total_samples = 4
    /\ aggregated["baseline"]["InstructionLabel"].total_correct = 3
    /\ aggregated["baseline"]["InstructionLabel"].overall_accuracy = <<3, 4>>

\* report counts the bugs r[i], i in S, and those of them with a correct sample
SolvedCounted(report, S, r) ==
    LET solved == Cardinality({ i \in S : r[i].correct_samples > 0 })
    IN  /\ report.total_bugs = Cardinality(S)
        /\ report.total_bugs > 0
        /\ report.bugs_with_at_least_one_correct = solved
        /\ report.bugs_solved_rate[2] > 0
        /\ report.bugs_solved_rate[1] * report.total_bugs = solved * report.bugs_solved_rate[2]

\* C11: every group reports total_bugs as the number of its bugs,
\* bugs_with_at_least_one_correct as the number of its bugs whose correct_samples > 0,
\* and bugs_solved_rate = bugs_with_at_least_one_correct / total_bugs.
C11_SolvedRate ==
    apc = "aggregated" =>
        /\ \A e \in DOMAIN aggregated \ {"baseline"} :
              SolvedCounted(aggregated[e], EntriesOf(e),
                            [i \in EntriesOf(e) |-> all_results[i].results])
        /\ "baseline" \in DOMAIN aggregated =>
              \A s \in DOMAIN aggregated["baseline"] :
                  SolvedCounted(aggregated["baseline"][s], StyleEntriesOf(s),
                                [i \in StyleEntriesOf(s) |-> all_results[i].results[s]])

\* the scenario of two bugs with verdicts [true, false, true] and [false, false]
C11_Witness ==
    /\ apc = "aggregated"
    /\ Len(all_results) = 2
    /\ all_results[1] = [experiment |-> "fln-all",
                         results |-> [total_samples |-> 3, correct_samples |-> 2]]
    /\ all_results[2] = [experiment |-> "fln-all",
                         results |-> [total_samples |-> 2, correct_samples |-> 0]]
    /\ aggregated["fln-all"].overall_accuracy = <<2, 5>>
    /\ aggregated["fln-all"].bugs_with_at_least_one_correct = 1
    /\ aggregated["fln-all"].bugs_solved_rate = <<1, 2>>

\* the groups of a report: the heuristic experiments' and the baseline styles'
GroupsOf(agg) ==
    { agg[e] : e \in DOMAIN agg \ {"baseline"} }
    \cup (IF "baseline" \in DOMAIN agg
          THEN { agg["baseline"][s] : s \in DOMAIN agg["baseline"] } ELSE {})

\* all_results holds no bug: it is empty or holds only missing results
ZeroBugs == \A i \in DOMAIN all_results : all_results[i] = None

\* C12 as stated: aggregating zero bugs yields a report whose overall_accuracy is 0
\* and whose bugs_solved_rate is 0.
C12_ZeroBugsReport ==
    (apc = "aggregated" /\ ZeroBugs) =>
        \E g \in GroupsOf(aggregated) :
            g.overall_accuracy = Zero /\ g.bugs_solved_rate = Zero

\* C12 amended: aggregating zero bugs ends and yields the empty report, which has
\* no group and so no overall_accuracy and no bugs_solved_rate; a group is reported
\* only for at least one bug, and a group whose bugs have no sample reports 0 for both.
C12_ZeroBugsEmpty ==
    /\ apc = "input" => ENABLED AggregateResults
    /\ apc = "aggregated" =>
          /\ ZeroBugs => aggregated = <<>>
          /\ \A g \in GroupsOf(aggregated) :
                /\ g.total_bugs >= 1
                /\ g.total_samples = 0 =>
                      g.overall_accuracy = Zero /\ g.bugs_solved_rate = Zero

C12_Witness ==
    /\ apc = "aggregated"
    /\ Len(all_results) = 2
    /\ ZeroBugs
    /\ aggregated = <<>>

----------------------------------------------------------------------------
(* Claims about the main program of the evaluator *)

\* the bug data of output file f has an expected fix, so the evaluator accepts it
Accepted(f) ==
    /\ f.bug_data # None
    /\ "single_line_change" \in DOMAIN f.bug_data
    /\ f.bug_data.single_line_change.added # <<>>

\* the outputs list of style s in baseline output file f, empty if missing
StyleOutputs(f, s) ==
    IF "outputs" \in DOMAIN f.output_data /\ s \in DOMAIN f.output_data.outputs
    THEN f.output_data.outputs[s] ELSE <<>>

\* the outputs list of heuristic output file f, empty if missing
HeuristicOutputs(f) ==
    IF "outputs" \in DOMAIN f.output_data THEN f.output_data.outputs ELSE <<>>

\* output file f has a result
HasResult(f) ==
    Accepted(f) /\ (f.exp_type = "baseline" \/ HeuristicOutputs(f) # <<>>)

\* the output files evaluated so far that have a result, in order
Kept == SelectSeq(SubSeq(output_files, 1, file_idx), HasResult)

\* the report of a group counts the files S, whose samples are outputs[i]
CountsOnly(report, S, outputs) ==
    /\ report.total_bugs = Cardinality(S)
    /\ report.total_samples = SumOver(S, [i \in S |-> Len(outputs[i])])

\* C13: a style with missing or empty outputs gets no result entry, a heuristic
\* output file with missing or empty outputs gets no result, and a group of the
\* report counts in total_bugs and total_samples only the bugs with a result entry
\* for the group: the group is absent when there is none.
C13_SkippedNotZeroFilled ==
    /\ Len(all_results) = Len(Kept)
    /\ \A k \in 1..Len(all_results) :
          LET r == all_results[k]
              f == Kept[k]
          IN  /\ r.experiment = f.exp_type
              /\ IF f.exp_type = "baseline"
                 THEN /\ DOMAIN r.results = { s \in StyleLabels : StyleOutputs(f, s) # <<>> }
                      /\ \A s \in DOMAIN r.results :
                            r.results[s].total_samples = Len(StyleOutputs(f, s))
                 ELSE /\ HeuristicOutputs(f) # <<>>
                      /\ r.results.total_samples = Len(HeuristicOutputs(f))
    /\ (mpc = "done" /\ all_results # <<>>) =>
          /\ \A h \in HeuristicTypes :
                LET S == { i \in DOMAIN output_files :
                             output_files[i].exp_type = h /\ HasResult(output_files[i]) }
                IN  IF S = {} THEN h \notin DOMAIN aggregated
                    ELSE /\ h \in DOMAIN aggregated
                         /\ CountsOnly(aggregated[h], S,
                                       [i \in S |-> HeuristicOutputs(output_files[i])])
          /\ \A s \in StyleLabels :
                LET S == { i \in DOMAIN output_files :
                             /\ output_files[i].exp_type = "baseline"
                             /\ Accepted(output_files[i])
                             /\ StyleOutputs(output_files[i], s) # <<>> }
                IN  IF S = {}
                    THEN "baseline" \in DOMAIN aggregated => s \notin DOMAIN aggregated["baseline"]
                    ELSE /\ "baseline" \in DOMAIN aggregated
                         /\ s \in DOMAIN aggregated["baseline"]
                         /\ CountsOnly(aggregated["baseline"][s], S,
                                       [i \in S |-> StyleOutputs(output_files[i], s)])

\* two baseline bugs, one of them with an empty InstructionLabel list
C13_Witness ==
    /\ mpc = "done"
    /\ Len(output_files) = 2
    /\ \A i \in 1..2 : output_files[i].exp_type = "baseline" /\ Accepted(output_files[i])
    /\ StyleOutputs(output_files[1], "Instruction") = <<SampleGood>>
    /\ StyleOutputs(output_files[1], "InstructionLabel") = <<>>
    /\ StyleOutputs(output_files[2], "Instruction") = <<SampleBad, SampleGood>>
    /\ StyleOutputs(output_files[2], "InstructionLabel") = <<SampleGood>>
    /\ aggregated["baseline"]["Instruction"].total_bugs = 2
    /\ aggregated["baseline"]["Instruction"].total_samples = 3
    /\ aggregated["baseline"]["InstructionLabel"].total_bugs = 1
    /\ aggregated["baseline"]["InstructionLabel"].total_samples = 1

----------------------------------------------------------------------------
(* analyze_bug on the files of one bug *)

\* the most lines of a bug.info file
MaxInfoLines == 2

\* test_file="t.py"
InfoTestFile ==
    <<"t", "e", "s", "t", "_", "f", "i", "l", "e", "=", "\"", "t", ".", "p", "y", "\"">>

\* # a=b
InfoComment ==
    <<"#", " ", "a", "=", "b">>

\*  github_url = u=v
InfoGithubUrl ==
    <<" ", "g", "i", "t", "h", "u", "b", "_", "u", "r", "l", " ", "=", " ", "u", "=",
      "v", " ">>

InfoLines == { InfoTestFile, InfoComment, InfoGithubUrl }

\* the bug.info files: missing, empty, or of at most MaxInfoLines lines
InfoFiles ==
    { NoFile }
    \cup { [exists |-> TRUE, content |-> c] :
             c \in UNION { [1..n -> InfoLines] : n \in 0..MaxInfoLines } }

\* the lines of the patches analyze_bug is run on
AnalyzeLines == { Marker(PathF), Marker(PathDoc), HunkAdd, RemovedCode, AddedCode }

AnalyzeInit ==
    /\ IdleExcept("analyze")
    /\ zpc = "input"
    /\ bug_info_file \in InfoFiles
    /\ patch_exists \in BOOLEAN
    /\ lines \in (IF patch_exists THEN Patches(AnalyzeLines) ELSE { <<>> })
    /\ bug_data = None
    /\ ppc = "idle"
    /\ changed_files = <<>>
    /\ single_line = <<FALSE, None>>
    /\ bugs_info = <<>>

\* one call analyze_bug(project_name, bug_id)
AnalyzeBug ==
    /\ zpc = "input"
    /\ bug_data' = analyze_bug("p", "1", bug_info_file, patch_exists, lines)
    /\ zpc' = "analyzed"
    /\ UNCHANGED <<bug_info_file, patch_exists, lines, notAnalyzeVars>>

AnalyzeNext == AnalyzeBug

SpecAnalyze == AnalyzeInit /\ [][AnalyzeNext]_vars

\* the bug.info file holds no key=value line: it is empty, or all comment and text
NoMetadata ==
    \A i \in DOMAIN bug_info_file.content :
        \/ ~contains(bug_info_file.content[i], <<"=">>)
        \/ startswith(strip(bug_info_file.content[i]), <<"#">>)

\* C14: analyze_bug returns a record only for a patch the single-line filter passes,
\* which has one removed and one added code line, and the record's
\* single_line_change is the filter's {file, deleted, added}; with bug.info missing
\* or without an entry, with the patch missing or empty, or with a patch that fails
\* the filter, the call returns None.
C14_OnlySingleLine ==
    zpc = "analyzed" =>
          /\ bug_data # None =>
                /\ bug_info_file.exists /\ ~NoMetadata
                /\ patch_exists /\ ~IsEmptyPatch(lines)
                /\ is_single_line_bug(lines)[1] = TRUE
                /\ bug_data.single_line_change = is_single_line_bug(lines)[2]
                /\ DOMAIN bug_data.single_line_change = {"file", "deleted", "added"}
                /\ Cardinality(RemovedCodeLines) = 1 /\ Cardinality(AddedCodeLines) = 1
                /\ \A i \in RemovedCodeLines :
                      bug_data.single_line_change.deleted = strip(Tail(lines[i]))
                /\ \A i \in AddedCodeLines :
                      bug_data.single_line_change.added = strip(Tail(lines[i]))
          /\ (\/ ~bug_info_file.exists
              \/ NoMetadata
              \/ ~patch_exists
              \/ IsEmptyPatch(lines)
              \/ is_single_line_bug(lines)[1] = FALSE) => bug_data = None

C14_Witness ==
    /\ zpc = "analyzed"
    /\ bug_info_file.exists
    /\ bug_info_file.content = <<InfoComment, InfoTestFile>>
    /\ lines = <<Marker(PathF), HunkAdd, RemovedCode, AddedCode>>
    /\ bug_data # None
    /\ bug_data.single_line_change =
          [file |-> PathF, deleted |-> <<"x", " ", "=", " ", "1">>,
           added |-> <<"x", " ", "=", " ", "2">>]
    /\ bug_data.bug_description.test_file = <<"t", ".", "p", "y">>
    /\ Len(bug_data.files) = 1

----------------------------------------------------------------------------
(* src/prompts/baseline-prompt.py, src/prompts/heuristics-prmpt.py: the strings *)
(* run_ollama returns when every invocation failed                            *)

\* [ERROR: Timeout after retries]
SentinelTimeout ==
    <<"[", "E", "R", "R", "O", "R", ":", " ", "T", "i", "m", "e", "o", "u", "t", " ",
      "a", "f", "t", "e", "r", " ", "r", "e", "t", "r", "i", "e", "s", "]">>

\* f"[ERROR: {str(e)}]"
error_sentinel(message) == <<"[", "E", "R", "R", "O", "R", ":", " ">> \o message \o <<"]">>

\* str(e) of the RuntimeError raised for a non-zero return code: Ollama error: <stderr>
ollama_error(stderr) ==
    <<"O", "l", "l", "a", "m", "a", " ", "e", "r", "r", "o", "r", ":", " ">> \o stderr

\* what the model runner wrote to stderr: nothing, or pull failed
StderrTexts ==
    { <<>>,
      <<"p", "u", "l", "l", " ", "f", "a", "i", "l", "e", "d">> }

Sentinels == { SentinelTimeout } \cup { error_sentinel(ollama_error(e)) : e \in StderrTexts }

----------------------------------------------------------------------------
(* The evaluator on a sentinel string *)

\* the most characters of an expected fix compared with a sentinel
MaxFix == 2

FixChars == { "x", "=", "2", "E", ":", "]", " ", "#" }

\* the expected fixes the analyzer can store: stripped code lines
ExpectedFixes ==
    { e \in UNION { [1..n -> FixChars] : n \in 1..MaxFix } : strip(e) = e /\ is_code_line(e) }

SentinelInit ==
    /\ IdleExcept("eval")
    /\ epc = "input"
    /\ generated \in Sentinels
    /\ expected \in ExpectedFixes
    /\ gen_normalized = <<>>
    /\ exp_normalized = <<>>
    /\ verdict = "none"
    /\ renormalized = <<>>

SentinelNext == IsCodeCorrect

SpecSentinel == SentinelInit /\ [][SentinelNext]_vars

\* C15: a sentinel string fails the equivalence check against every non-empty
\* expected fix: is_code_correct(sentinel, expected) is false.
C15_SentinelFails ==
    (epc = "checked" /\ generated \in Sentinels /\ expected # <<>>) => verdict = FALSE

----------------------------------------------------------------------------
(* extract_file_info, one turn of its loop at a time *)

\* the most lines after the file marker that extract_file_info is called on
MaxScanLines == 4

\* the lines after the file marker
ScanLines ==
    { HunkAdd, HunkSub, HunkClass, HunkDefOnly, RemovedCode, AddedCode, ContextLine,
      Marker(PathF) }

ScanInit ==
    /\ IdleExcept("scan")
    /\ spc = "called"
    /\ \E first \in { Marker(PathF), Marker(PathDoc) } :
       \E rest \in UNION { [1..n -> ScanLines] : n \in 0..MaxScanLines } :
           lines = <<first>> \o rest
    /\ scan_i = 1
    /\ scan_st = ScanStart
    /\ scan_result = None
    /\ ppc = "idle"
    /\ changed_files = <<>>
    /\ single_line = <<FALSE, None>>
    /\ bugs_info = <<>>

\* extract_file_info(lines, 0) up to its loop: the path and the .py test
StartScan ==
    /\ spc = "called"
    /\ LET match == re_search_path(lines[scan_i])
       IN  IF match.matched /\ is_python_name(basename(match.group))
           THEN spc' = "scanning" /\ scan_i' = scan_i + 1
           ELSE spc' = "done" /\ scan_i' = scan_i
    /\ UNCHANGED <<scan_st, scan_result, lines, notScanVars>>

\* one turn of the while loop that does not break
ScanLine ==
    /\ spc = "scanning"
    /\ scan_i <= Len(lines)
    /\ ~startswith(lines[scan_i], DiffGit)
    /\ scan_st' = scan_line(scan_st, lines[scan_i])
    /\ scan_i' = scan_i + 1
    /\ UNCHANGED <<spc, scan_result, lines, notScanVars>>

\* the loop ends, at a file marker or after the last line: the last commit and the return
FinishScan ==
    /\ spc = "scanning"
    /\ IF scan_i > Len(lines) THEN TRUE ELSE startswith(lines[scan_i], DiffGit)
    /\ scan_st' = [scan_st EXCEPT !.changed_functions = commit_function(scan_st)]
    /\ scan_result' =
          [buggy_file_name      |-> basename(re_search_path(lines[1]).group),
           buggy_file_path      |-> re_search_path(lines[1]).group,
           buggy_line_locations |-> sorted_set(scan_st.buggy_line_locations),
           changed_functions    |-> commit_function(scan_st),
           end_index            |-> scan_i]
    /\ spc' = "done"
    /\ UNCHANGED <<scan_i, lines, notScanVars>>

ScanNext == StartScan \/ ScanLine \/ FinishScan

SpecScan == ScanInit /\ [][ScanNext]_vars

\* the scan, turn by turn, returns what extract_file_info returns
ScanAgrees == spc = "done" => scan_result = extract_file_info(lines, 1)

----------------------------------------------------------------------------
(* Claims about the scan of extract_file_info *)

\* the well-formed hunk headers among the lines: those whose context is a function
\* signature, those whose context holds def, and all of them
SignatureHeaders == { HunkAdd, HunkSub }

DefHeaders == { HunkAdd, HunkSub, HunkDefOnly }

HunkHeaders == { HunkAdd, HunkSub, HunkClass, HunkDefOnly }

\* the function that a signature header names
SignatureName(header) == IF header = HunkAdd THEN <<"a", "d", "d">> ELSE <<"s", "u", "b">>

\* the texts of ls joined by line feeds
RECURSIVE TextOf(_)
TextOf(ls) ==
    IF ls = <<>> THEN <<>>
    ELSE IF Len(ls) = 1 THEN ls[1]
    ELSE ls[1] \o <<"\n">> \o TextOf(Tail(ls))

\* the lines of body that start with a character of signs, that character taken off
Stripped(body, signs) ==
    LET kept == SelectSeq(body, LAMBDA l : l # <<>> /\ l[1] \in signs)
    IN  [k \in 1..Len(kept) |-> Tail(kept[k])]

\* the one FunctionChange of the lines body gathered under the name of header, or
\* none when body holds no context, removed or added line
OneFunction(header, body) ==
    LET before == Stripped(body, {" ", "-"})
        after == Stripped(body, {" ", "+"})
    IN  IF before = <<>> /\ after = <<>> THEN <<>>
        ELSE << [buggy_function_name |-> SignatureName(header),
                 function_before     |-> TextOf(before),
                 function_after      |-> TextOf(after)] >>

\* the hunk header lines of the block scanned, up to line j
HeadersUpTo(j) == { k \in 2..j : k < BlockEnd(1) /\ startswith(lines[k], AtAt) }

\* C16: for a block with a single hunk whose header is a function signature, nothing
\* is committed while the block is scanned, and at its end extract_file_info returns
\* one FunctionChange of that name: function_before is the context and removed lines
\* of the hunk in order, function_after its context and added lines in order, each
\* without its marker; a hunk with no such line gives no FunctionChange.
C16_SingleHunk ==
    LET hs == HeadersUpTo(Len(lines))
    IN  (Cardinality(hs) = 1 /\ \A h \in hs : lines[h] \in SignatureHeaders) =>
            /\ spc = "scanning" => scan_st.changed_functions = <<>>
            /\ (spc = "done" /\ scan_result # None) =>
                  \A h \in hs :
                      scan_result.changed_functions =
                          OneFunction(lines[h], SubSeq(lines, h + 1, BlockEnd(1) - 1))

C16_Witness ==
    /\ spc = "done"
    /\ lines = <<Marker(PathF), HunkAdd, ContextLine, RemovedCode, AddedCode>>
    /\ scan_result.changed_functions =
          << [buggy_function_name |-> <<"a", "d", "d">>,
              function_before     |-> <<"y", "\n", " ", " ", "x", " ", "=", " ", "1">>,
              function_after      |-> <<"y", "\n", " ", " ", "x", " ", "=", " ", "2">>] >>

\* C17 as stated: an entry is appended to changed_functions only by a hunk header
\* after which another function is open than before it (or none is), or at the end
\* of the block.
C17_ClosedOnDifferentFunction ==
    [][scan_st'.changed_functions # scan_st.changed_functions =>
          IF spc' = "done" THEN TRUE
          ELSE /\ lines[scan_i] \in HunkHeaders
               /\ scan_st'.current_function # scan_st.current_function]_vars

\* C17 amended: an entry is appended to changed_functions only by a well-formed hunk
\* header whose context holds def, whether it names another function, the function
\* that is open or no function at all, or at the end of the block; the entry is the
\* open function with the lines it gathered, of which there is at least one.
C17_ClosedOnDefHeader ==
    [][scan_st'.changed_functions # scan_st.changed_functions =>
          /\ scan_st.current_function # NoneStr
          /\ scan_st.function_before_lines # <<>> \/ scan_st.function_after_lines # <<>>
          /\ scan_st'.changed_functions =
                Append(scan_st.changed_functions,
                       [buggy_function_name |-> scan_st.current_function,
                        function_before     |-> TextOf(scan_st.function_before_lines),
                        function_after      |-> TextOf(scan_st.function_after_lines)])
          /\ IF spc' = "done" THEN TRUE ELSE lines[scan_i] \in DefHeaders]_vars

\* a second hunk of the function that is open closes it and opens it again
C17_Witness ==
    /\ spc = "scanning"
    /\ Len(lines) >= 4
    /\ scan_i = 5
    /\ lines[2] = HunkAdd /\ lines[3] = RemovedCode /\ lines[4] = HunkAdd
    /\ Len(scan_st.changed_functions) = 1
    /\ scan_st.changed_functions[1].buggy_function_name = <<"a", "d", "d">>
    /\ scan_st.current_function = <<"a", "d", "d">>
    /\ scan_st.function_before_lines = <<>>

\* the last of the lines 2..j-1 that is a header of hs, 0 when there is none
LastHeader(hs, j) ==
    LET ks == { k \in 2..(j - 1) : lines[k] \in hs }
    IN  IF ks = {} THEN 0 ELSE CHOOSE k \in ks : \A m \in ks : m <= k

\* C18 as stated: while the last well-formed hunk header scanned is one whose context
\* matches no function signature, no function is open.
C18_NoFunctionOpen ==
    LET h == LastHeader(HunkHeaders, scan_i)
    IN  (spc = "scanning" /\ h # 0 /\ lines[h] \notin SignatureHeaders) =>
            /\ scan_st.current_function = NoneStr
            /\ ~scan_st.in_function

\* C18 amended: after a well-formed hunk header whose context holds def but matches
\* no function signature, no function is open, and until the next header that holds
\* def the lines scanned, and the end of the scan, change neither the before/after
\* lines nor changed_functions.
C18_ClearedByDefWithoutSignature ==
    [][LET h == LastHeader(DefHeaders, scan_i')
       IN  (spc' \in {"scanning", "done"} /\ h # 0 /\ lines[h] = HunkDefOnly) =>
               /\ scan_st'.current_function = NoneStr
               /\ ~scan_st'.in_function
               /\ h = LastHeader(DefHeaders, scan_i) =>
                      /\ scan_st'.function_before_lines = scan_st.function_before_lines
                      /\ scan_st'.function_after_lines = scan_st.function_after_lines
                      /\ scan_st'.changed_functions = scan_st.changed_functions
                      /\ spc' = "done" =>
                             scan_result'.changed_functions = scan_st.changed_functions]_vars

\* the added line after a header that holds def and names no function is left out
C18_Witness ==
    /\ spc = "done"
    /\ lines = <<Marker(PathF), HunkAdd, RemovedCode, HunkDefOnly, AddedCode>>
    /\ scan_result.changed_functions =
          << [buggy_function_name |-> <<"a", "d", "d">>,
              function_before     |-> <<" ", " ", "x", " ", "=", " ", "1">>,
              function_after      |-> <<>>] >>

\* C19: a well-formed hunk header whose context holds no def changes nothing of the
\* scan but the recorded old start: no function is started, nothing is committed, the
\* function that was open stays open with its lines, and the line that follows is
\* gathered into that function.
C19_HeaderWithoutDefKeepsFunction ==
    [][(spc = "scanning" /\ spc' = "scanning") =>
          /\ lines[scan_i] = HunkClass =>
                 scan_st' = [scan_st EXCEPT !.buggy_line_locations = Append(@, 12)]
          /\ (scan_i > 2 /\ lines[scan_i - 1] = HunkClass
                          /\ scan_st.current_function # NoneStr) =>
                 /\ lines[scan_i] = AddedCode =>
                        scan_st'.function_after_lines =
                            Append(scan_st.function_after_lines, Tail(AddedCode))
                 /\ lines[scan_i] = RemovedCode =>
                        scan_st'.function_before_lines =
                            Append(scan_st.function_before_lines, Tail(RemovedCode))]_vars

\* the added line after a class header goes to the function opened before the header
C19_Witness ==
    /\ spc = "done"
    /\ lines = <<Marker(PathF), HunkSub, RemovedCode, HunkClass, AddedCode>>
    /\ scan_result.buggy_line_locations = <<12, 20>>
    /\ scan_result.changed_functions =
          << [buggy_function_name |-> <<"s", "u", "b">>,
              function_before     |-> <<" ", " ", "x", " ", "=", " ", "1">>,
              function_after      |-> <<" ", " ", "x", " ", "=", " ", "2">>] >>

----------------------------------------------------------------------------
(* src/prompts/baseline-prompt.py and heuristics-prmpt.py: run_ollama *)

MAX_RETRIES == 3

\* what the model wrote to stdout: x, x between white space, or nothing
StdoutTexts ==
    { <<"x">>, <<" ", "x", "\n">>, <<>> }

\* str(e) of the OSError raised when the ollama program is missing
NoOllama ==
    <<"[", "E", "r", "r", "n", "o", " ", "2", "]", " ", "N", "o", " ", "s", "u", "c",
      "h", " ", "f", "i", "l", "e", " ", "o", "r", " ", "d", "i", "r", "e", "c", "t",
      "o", "r", "y", ":", " ", "'", "o", "l", "l", "a", "m", "a", "'">>

ErrorPrefix == <<"[", "E", "R", "R", "O", "R", ":">>

\* a test that allows one retry more
retries_left_inclusive(n) == n <= MAX_RETRIES

\* retry_count < MAX_RETRIES
retries_left(n) == n < MAX_RETRIES

\* an except clause of run_ollama: the call again with retry_count + 1, or the
\* sentinel as return value
retry_or_return(sentinel) ==
    IF retries_left(retry_count)
    THEN /\ opc' = "called"
         /\ retry_count' = retry_count + 1
         /\ completion' = completion
    ELSE /\ opc' = "returned"
         /\ retry_count' = retry_count
         /\ completion' = sentinel

OllamaInit ==
    /\ IdleExcept("ollama")
    /\ opc = "called"
    /\ retry_count = 0
    /\ invocations = <<>>
    /\ completion = NoneStr

\* subprocess.run ends with return code 0: stdout.strip() is returned
OllamaCompletes ==
    /\ opc = "called"
    /\ \E stdout \in StdoutTexts :
          /\ invocations' = Append(invocations, [kind |-> "completed", text |-> stdout])
          /\ completion' = strip(stdout)
    /\ opc' = "returned"
    /\ UNCHANGED <<retry_count, notOllamaVars>>

\* subprocess.run ends with another return code: the RuntimeError is caught
OllamaFails ==
    /\ opc = "called"
    /\ \E stderr \in StderrTexts :
          /\ invocations' = Append(invocations, [kind |-> "failed", text |-> stderr])
          /\ retry_or_return(error_sentinel(ollama_error(stderr)))
    /\ UNCHANGED notOllamaVars

\* subprocess.run raises TimeoutExpired after TIMEOUT seconds
OllamaTimesOut ==
    /\ opc = "called"
    /\ invocations' = Append(invocations, [kind |-> "timeout", text |-> <<>>])
    /\ retry_or_return(SentinelTimeout)
    /\ UNCHANGED notOllamaVars

\* subprocess.run raises another Exception
OllamaRaises ==
    /\ opc = "called"
    /\ invocations' = Append(invocations, [kind |-> "raised", text |-> NoOllama])
    /\ retry_or_return(error_sentinel(NoOllama))
    /\ UNCHANGED notOllamaVars

OllamaNext == OllamaCompletes \/ OllamaFails \/ OllamaTimesOut \/ OllamaRaises

SpecOllama == OllamaInit /\ [][OllamaNext]_vars

\* every subprocess.run ends, by itself or by its timeout, and so does every sleep
FairSpecOllama == SpecOllama /\ WF_vars(OllamaNext)

\* what run_ollama returned against the invocations it made: at most MAX_RETRIES + 1
\* of them, none but the last completed, the stripped output of the last if it
\* completed, and else MAX_RETRIES + 1 invocations and a sentinel as return value
ReturnedAsSpecified ==
    LET n == Len(invocations)
    IN  /\ opc = "returned"
        /\ n \in 1..(MAX_RETRIES + 1)
        /\ \A k \in 1..(n - 1) : invocations[k].kind # "completed"
        /\ completion # NoneStr
        /\ IF invocations[n].kind = "completed"
           THEN completion = strip(invocations[n].text)
           ELSE n = MAX_RETRIES + 1 /\ startswith(completion, ErrorPrefix)

\* C20: run_ollama always returns, with a string; it invokes the model at most
\* MAX_RETRIES + 1 times, returns the output of the first invocation that completes,
\* and a sentinel that begins with [ERROR: if every invocation timed out or failed.
C20_ReturnsAString == (opc = "called") ~> ReturnedAsSpecified

\* four invocations that fail, the last with pull failed on stderr
C20_Witness ==
    /\ opc = "returned"
    /\ Len(invocations) = MAX_RETRIES + 1
    /\ invocations[1].kind = "timeout"
    /\ invocations[2].kind = "raised"
    /\ invocations[4] = [kind |-> "failed", text |-> <<"p", "u", "l", "l", " ", "f", "a", "i", "l", "e", "d">>]
    /\ completion = error_sentinel(ollama_error(<<"p", "u", "l", "l", " ", "f", "a", "i", "l", "e", "d">>))

----------------------------------------------------------------------------
(* src/prompts/baseline-prompt.py and heuristics-prmpt.py: generate_parallel *)

MAX_WORKERS == 4

\* the most samples generate_parallel is asked for
MaxSamples == 5

\* what run_ollama returns to generate_sample: a completion, or a sentinel
SampleOutputs == { <<"x">>, SentinelTimeout }

\* str(e) of the OSError that a print to a closed pipe raises in a worker
BrokenPipe ==
    <<"[", "E", "r", "r", "n", "o", " ", "3", "2", "]", " ", "B", "r", "o", "k", "e", "n", " ", "p", "i", "p", "e">>

\* the future of sample i when it is submitted
Submitted(i) ==
    [state |-> "queued", kind |-> "none", sample_idx |-> i, text |-> <<>>, yielded |-> FALSE]

\* the samples in a state of the pool
InState(st) == { i \in 1..n_samples : futures[i].state = st }

\* a list filled in the order in which the futures complete
store_result_in_completion_order(rs, sample_idx, output) ==
    LET unset == { k \in 1..Len(rs) : rs[k] = NoneStr }
    IN  [rs EXCEPT ![Min(unset)] = output]

\* results[sample_idx] = output, the list counted from 1
store_result(rs, sample_idx, output) == [rs EXCEPT ![sample_idx] = output]

GenerateInit ==
    /\ IdleExcept("generate")
    /\ gpc = "collecting"
    /\ n_samples \in 0..MaxSamples
    /\ futures = [i \in 1..n_samples |-> Submitted(i)]
    /\ gen_results = [i \in 1..n_samples |-> NoneStr]

\* a free thread of the pool takes the first task of the queue
WorkerStarts ==
    /\ gpc = "collecting"
    /\ InState("queued") # {}
    /\ Cardinality(InState("running")) < MAX_WORKERS
    /\ futures' = [futures EXCEPT ![Min(InState("queued"))].state = "running"]
    /\ UNCHANGED <<gpc, n_samples, gen_results, notGenerateVars>>

\* generate_sample returns (sample_idx, result)
WorkerReturns ==
    /\ gpc = "collecting"
    /\ \E i \in InState("running") : \E result \in SampleOutputs :
          futures' = [futures EXCEPT ![i].state = "done", ![i].kind = "returned",
                                      ![i].text = result]
    /\ UNCHANGED <<gpc, n_samples, gen_results, notGenerateVars>>

\* generate_sample raises
WorkerRaises ==
    /\ gpc = "collecting"
    /\ \E i \in InState("running") :
          futures' = [futures EXCEPT ![i].state = "done", ![i].kind = "raised",
                                      ![i].text = BrokenPipe]
    /\ UNCHANGED <<gpc, n_samples, gen_results, notGenerateVars>>

\* one turn of the loop over as_completed(futures)
CollectResult ==
    /\ gpc = "collecting"
    /\ \E f \in InState("done") :
          /\ ~futures[f].yielded
          /\ futures' = [futures EXCEPT ![f].yielded = TRUE]
          /\ gen_results' =
                IF futures[f].kind = "returned"
                THEN store_result(gen_results, futures[f].sample_idx, futures[f].text)
                ELSE store_result(gen_results, f, error_sentinel(futures[f].text))
    /\ UNCHANGED <<gpc, n_samples, notGenerateVars>>

\* the loop has seen every future: the executor shuts down and results is returned
ReturnResults ==
    /\ gpc = "collecting"
    /\ \A i \in 1..n_samples : futures[i].yielded
    /\ gpc' = "returned"
    /\ UNCHANGED <<n_samples, futures, gen_results, notGenerateVars>>

GenerateNext ==
    WorkerStarts \/ WorkerReturns \/ WorkerRaises \/ CollectResult \/ ReturnResults

SpecGenerate == GenerateInit /\ [][GenerateNext]_vars

\* the entry of sample i once its future was seen by the loop
EntryOf(i) ==
    IF futures[i].kind = "returned" THEN futures[i].text
    ELSE error_sentinel(futures[i].text)

\* C21: results has n_samples entries at every moment; entry i is unset until the
\* future of sample i was seen and is from then on the output, or the error string,
\* of sample i, whatever the order of completion and whatever happened to the other
\* samples; generate_parallel is never stuck, and when it returns no entry is unset.
C21_IndexPreserved ==
    gpc \in {"collecting", "returned"} =>
        /\ Len(gen_results) = n_samples
        /\ \A i \in 1..n_samples :
              gen_results[i] = IF futures[i].yielded THEN EntryOf(i) ELSE NoneStr
        /\ gpc = "collecting" => ENABLED GenerateNext
        /\ gpc = "returned" => \A i \in 1..n_samples : gen_results[i] # NoneStr

\* sample 3 was stored first, sample 2 failed, and sample 1 is still running
C21_Witness ==
    /\ gpc = "collecting"
    /\ n_samples = 3
    /\ futures[1].state = "running"
    /\ futures[2].kind = "raised"
    /\ gen_results = <<NoneStr, error_sentinel(BrokenPipe), <<"x">>>>

----------------------------------------------------------------------------
(* The filter and the parser on the same patch *)

\* the lines of the patches that both is_single_line_bug and parse_patch are run on
MineLines ==
    { Marker(PathF), Marker(PathLib), Marker(PathTest), Marker(PathDoc),
      HunkAdd, RemovedCode, AddedCode, RemovedComment }

MineInit ==
    /\ IdleExcept("analyze")
    /\ ppc = "input"
    /\ zpc = "input"
    /\ bug_info_file = [exists |-> TRUE, content |-> <<InfoTestFile>>]
    /\ patch_exists = TRUE
    /\ lines \in Patches(MineLines)
    /\ changed_files = <<>>
    /\ single_line = <<FALSE, None>>
    /\ bugs_info = <<>>
    /\ bug_data = None

\* one call parse_patch(patch_content) on the patch the filter was run on
ParseFilteredPatch ==
    /\ ppc = "filtered"
    /\ bugs_info' = parse_patch(lines)
    /\ ppc' = "parsed"
    /\ UNCHANGED <<lines, changed_files, single_line, notPatchVars>>

MineNext == IsSingleLineBug \/ ParseFilteredPatch \/ AnalyzeBug

SpecMine == MineInit /\ [][MineNext]_vars

\* the paths of the FileChanges of a list
PathsOf(files) == { files[k].buggy_file_path : k \in DOMAIN files }

\* C22: when is_single_line_bug succeeds on a patch, parse_patch on the same patch
\* returns at least one FileChange and the file of single_line_change is the
\* buggy_file_path of one of them; every record analyze_bug returns has a non-empty
\* files list that holds the file of its single_line_change.
C22_FilterParserAgree ==
    /\ (ppc = "parsed" /\ single_line[1] = TRUE) =>
           /\ Len(bugs_info) >= 1
           /\ single_line[2].file \in PathsOf(bugs_info)
    /\ (zpc = "analyzed" /\ bug_data # None) =>
           /\ bug_data.files # <<>>
           /\ bug_data.single_line_change.file \in PathsOf(bug_data.files)

\* a test file before the one qualifying file: the filter names f.py, the parser
\* returns both files
C22_Witness ==
    /\ ppc = "parsed"
    /\ zpc = "analyzed"
    /\ lines = <<Marker(PathTest), Marker(PathF), RemovedCode, AddedCode>>
    /\ single_line[1] = TRUE
    /\ single_line[2].file = PathF
    /\ Len(bugs_info) = 2
    /\ bugs_info[2].buggy_file_path = PathF
    /\ bug_data # None
    /\ bug_data.files = bugs_info

====
